---- MODULE Spec2Model ----
(***************************************************************************)
(* A model of go-chroma-client: the Client configuration built by          *)
(* NewClient from functional options, and the request dispatcher           *)
(* Client.doRequest with the public operations that call it.               *)
(*                                                                         *)
(* Strings are sequences of one-character strings, so that TrimSuffix,     *)
(* concatenation and the JSON encoder/decoder work on characters.          *)
(***************************************************************************)
EXTENDS Integers, Sequences, FiniteSets, TLC

VARIABLES
    client,   \* the *Client returned by NewClient, or NoClient before it
    opts,     \* the options NewClient was called with
    calls     \* per caller: the operation call it has in progress

vars == <<client, opts, calls>>

(***************************************************************************)
(* Bounds of the model.                                                    *)
(***************************************************************************)
MaxOpts == 2      \* longest option list given to NewClient
MaxURLLen == 3    \* longest base address given to WithBaseURL

(***************************************************************************)
(* Strings.                                                                *)
(***************************************************************************)
RECURSIVE StringsUpTo(_, _)
StringsUpTo(alphabet, n) ==
    IF n = 0 THEN {<<>>}
    ELSE LET shorter == StringsUpTo(alphabet, n - 1)
         IN  shorter \cup {Append(s, ch) : s \in shorter, ch \in alphabet}

HasSuffix(s, suffix) ==
    /\ Len(s) >= Len(suffix)
    /\ SubSeq(s, Len(s) - Len(suffix) + 1, Len(s)) = suffix

\* strings.TrimSuffix(s, suffix): s without the trailing suffix, once
TrimSuffix(s, suffix) ==
    IF HasSuffix(s, suffix) THEN SubSeq(s, 1, Len(s) - Len(suffix)) ELSE s

(***************************************************************************)
(* Client configuration.                                                   *)
(***************************************************************************)
DefaultBaseURL ==
    <<"h","t","t","p",":","/","/","l","o","c","a","l","h","o","s","t",
      ":","8","0","0","0">>
DefaultTenant ==
    <<"d","e","f","a","u","l","t","_","t","e","n","a","n","t">>
DefaultDatabase ==
    <<"d","e","f","a","u","l","t","_","d","a","t","a","b","a","s","e">>
DefaultTimeoutSeconds == 30

\* *http.Client values: nil, or a client with its Timeout in seconds
\* (0 is Go's "no timeout")
NilHTTPClient == [nil |-> TRUE, timeout |-> 0]
HTTPClient(timeout) == [nil |-> FALSE, timeout |-> timeout]
DefaultHTTPClient == HTTPClient(DefaultTimeoutSeconds)

NoClient == [constructed |-> FALSE]

Fields == {"baseURL", "httpClient", "tenant", "database"}

\* The ClientOption values: the field the closure assigns and the argument
\* it captured.
WithBaseURL(baseURL) == [field |-> "baseURL", arg |-> baseURL]
WithHTTPClient(httpClient) == [field |-> "httpClient", arg |-> httpClient]
WithTenant(tenant) == [field |-> "tenant", arg |-> tenant]
WithDatabase(database) == [field |-> "database", arg |-> database]

\* what the closure of an option stores in its field
\* the argument stored as it was passed
OptionValueAsGiven(opt) == opt.arg

OptionValue(opt) ==
    IF opt.field = "baseURL" THEN TrimSuffix(opt.arg, <<"/">>) ELSE opt.arg

\* opt(c): the closure's single assignment
ApplyOption(c, opt) == [c EXCEPT ![opt.field] = OptionValue(opt)]

\* the struct literal without the transport's Timeout
DefaultClientNoTimeout ==
    [constructed |-> TRUE,
     baseURL |-> DefaultBaseURL,
     httpClient |-> HTTPClient(0),
     tenant |-> DefaultTenant,
     database |-> DefaultDatabase]

\* the struct literal NewClient starts from
DefaultClient ==
    [constructed |-> TRUE,
     baseURL |-> DefaultBaseURL,
     httpClient |-> DefaultHTTPClient,
     tenant |-> DefaultTenant,
     database |-> DefaultDatabase]

\* the loop of NewClient running over the options from last to first
RECURSIVE ApplyBackwards(_, _)
ApplyBackwards(c, os) ==
    IF os = <<>> THEN c
    ELSE ApplyOption(ApplyBackwards(c, Tail(os)), Head(os))

\* for _, opt := range opts { opt(c) }
RECURSIVE ApplyOptions(_, _)
ApplyOptions(c, os) ==
    IF os = <<>> THEN c
    ELSE ApplyOptions(ApplyOption(c, Head(os)), Tail(os))

(***************************************************************************)
(* The inputs of construction.                                             *)
(***************************************************************************)
URLAlphabet == {"a", "/"}
BaseURLs == StringsUpTo(URLAlphabet, MaxURLLen)
TenantNames == {<<>>, <<"t">>}
DatabaseNames == {<<>>, <<"d">>}
HTTPClients == {NilHTTPClient, HTTPClient(0), HTTPClient(5)}

Options ==
    {WithBaseURL(u) : u \in BaseURLs}
    \cup {WithHTTPClient(h) : h \in HTTPClients}
    \cup {WithTenant(t) : t \in TenantNames}
    \cup {WithDatabase(d) : d \in DatabaseNames}

OptionLists == UNION {[1..n -> Options] : n \in 0..MaxOpts}

(***************************************************************************)
(* JSON: the values, the encoder (json.Marshal, and the server's encoder)  *)
(* and the decoder (json.Unmarshal) on characters.                         *)
(***************************************************************************)
JStr(s) == [t |-> "str", s |-> s]
JNum(n) == [t |-> "num", n |-> n]
JBool(b) == [t |-> "bool", b |-> b]
JNull == [t |-> "null"]
JObj(members) == [t |-> "obj", m |-> members]   \* <<key, value>> pairs
JArr(elems) == [t |-> "arr", e |-> elems]

DigitChars == <<"0", "1", "2", "3", "4", "5", "6", "7", "8", "9">>
IsDigit(ch) == \E d \in 1..Len(DigitChars) : DigitChars[d] = ch
DigitValue(ch) == (CHOOSE d \in 1..Len(DigitChars) : DigitChars[d] = ch) - 1

RECURSIVE Digits(_)
Digits(n) ==
    IF n < 10 THEN <<DigitChars[n + 1]>>
    ELSE Append(Digits(n \div 10), DigitChars[(n % 10) + 1])

Quote(s) == <<"\"">> \o s \o <<"\"">>
TrueLiteral == <<"t", "r", "u", "e">>
FalseLiteral == <<"f", "a", "l", "s", "e">>
NullLiteral == <<"n", "u", "l", "l">>

RECURSIVE Encode(_), EncodeMembers(_), EncodeElems(_)
Encode(v) ==
    CASE v.t = "str" -> Quote(v.s)
      [] v.t = "num" -> Digits(v.n)
      [] v.t = "bool" -> IF v.b THEN TrueLiteral ELSE FalseLiteral
      [] v.t = "null" -> NullLiteral
      [] v.t = "obj" -> <<"{">> \o EncodeMembers(v.m) \o <<"}">>
      [] v.t = "arr" -> <<"[">> \o EncodeElems(v.e) \o <<"]">>
EncodeMembers(ms) ==
    IF ms = <<>> THEN <<>>
    ELSE Quote(Head(ms)[1]) \o <<":">> \o Encode(Head(ms)[2])
         \o (IF Tail(ms) = <<>> THEN <<>>
             ELSE <<",">> \o EncodeMembers(Tail(ms)))
EncodeElems(es) ==
    IF es = <<>> THEN <<>>
    ELSE Encode(Head(es))
         \o (IF Tail(es) = <<>> THEN <<>> ELSE <<",">> \o EncodeElems(Tail(es)))

ParseFail == [ok |-> FALSE, val |-> JNull, next |-> 0]
ParseOK(v, n) == [ok |-> TRUE, val |-> v, next |-> n]

IsWS(ch) == ch \in {" ", "\n"}
RECURSIVE SkipWS(_, _)
SkipWS(s, i) == IF i <= Len(s) /\ IsWS(s[i]) THEN SkipWS(s, i + 1) ELSE i

HasLiteral(s, i, lit) ==
    /\ i + Len(lit) - 1 <= Len(s)
    /\ SubSeq(s, i, i + Len(lit) - 1) = lit

\* the index of the first quote at or after i, or 0
RECURSIVE ScanQuote(_, _)
ScanQuote(s, i) ==
    IF i > Len(s) THEN 0
    ELSE IF s[i] = "\"" THEN i ELSE ScanQuote(s, i + 1)

\* the string scanned one character short
ParseStringShort(s, i) ==
    LET j == ScanQuote(s, i + 1)
    IN  IF j = 0 THEN ParseFail
        ELSE ParseOK(JStr(SubSeq(s, i + 1, j - 2)), j + 1)

\* s[i] is the opening quote
ParseString(s, i) ==
    LET j == ScanQuote(s, i + 1)
    IN  IF j = 0 THEN ParseFail
        ELSE ParseOK(JStr(SubSeq(s, i + 1, j - 1)), j + 1)

RECURSIVE ScanDigits(_, _, _)
ScanDigits(s, i, acc) ==
    IF i <= Len(s) /\ IsDigit(s[i])
    THEN ScanDigits(s, i + 1, 10 * acc + DigitValue(s[i]))
    ELSE ParseOK(JNum(acc), i)

\* s[i] is a digit; a number starting with 0 is 0 alone
ParseNumber(s, i) ==
    IF s[i] = "0" THEN ParseOK(JNum(0), i + 1) ELSE ScanDigits(s, i, 0)

RECURSIVE ParseValue(_, _), ParseMembers(_, _, _), ParseElems(_, _, _)
ParseValue(s, i0) ==
    LET i == SkipWS(s, i0)
    IN  IF i > Len(s) THEN ParseFail
        ELSE CASE s[i] = "\"" -> ParseString(s, i)
               [] IsDigit(s[i]) -> ParseNumber(s, i)
               [] s[i] = "t" ->
                    IF HasLiteral(s, i, TrueLiteral)
                    THEN ParseOK(JBool(TRUE), i + Len(TrueLiteral))
                    ELSE ParseFail
               [] s[i] = "f" ->
                    IF HasLiteral(s, i, FalseLiteral)
                    THEN ParseOK(JBool(FALSE), i + Len(FalseLiteral))
                    ELSE ParseFail
               [] s[i] = "n" ->
                    IF HasLiteral(s, i, NullLiteral)
                    THEN ParseOK(JNull, i + Len(NullLiteral))
                    ELSE ParseFail
               [] s[i] = "{" ->
                    LET j == SkipWS(s, i + 1)
                    IN  IF j <= Len(s) /\ s[j] = "}"
                        THEN ParseOK(JObj(<<>>), j + 1)
                        ELSE ParseMembers(s, j, <<>>)
               [] s[i] = "[" ->
                    LET j == SkipWS(s, i + 1)
                    IN  IF j <= Len(s) /\ s[j] = "]"
                        THEN ParseOK(JArr(<<>>), j + 1)
                        ELSE ParseElems(s, j, <<>>)
               [] OTHER -> ParseFail
ParseMembers(s, i0, acc) ==
    LET i == SkipWS(s, i0)
    IN  IF i > Len(s) \/ s[i] # "\"" THEN ParseFail
        ELSE LET k == ParseString(s, i)
             IN  IF ~k.ok THEN ParseFail
                 ELSE LET c == SkipWS(s, k.next)
                      IN  IF c > Len(s) \/ s[c] # ":" THEN ParseFail
                          ELSE LET v == ParseValue(s, c + 1)
                               IN  IF ~v.ok THEN ParseFail
                                   ELSE LET e == SkipWS(s, v.next)
                                            acc2 == Append(acc, <<k.val.s, v.val>>)
                                        IN  IF e > Len(s) THEN ParseFail
                                            ELSE IF s[e] = "}"
                                            THEN ParseOK(JObj(acc2), e + 1)
                                            ELSE IF s[e] = ","
                                            THEN ParseMembers(s, e + 1, acc2)
                                            ELSE ParseFail
ParseElems(s, i0, acc) ==
    LET v == ParseValue(s, i0)
    IN  IF ~v.ok THEN ParseFail
        ELSE LET e == SkipWS(s, v.next)
                 acc2 == Append(acc, v.val)
             IN  IF e > Len(s) THEN ParseFail
                 ELSE IF s[e] = "]" THEN ParseOK(JArr(acc2), e + 1)
                 ELSE IF s[e] = "," THEN ParseElems(s, e + 1, acc2)
                 ELSE ParseFail

\* the whole input is one JSON value, white space around it allowed
ParseDocument(s) ==
    LET v == ParseValue(s, 1)
    IN  IF ~v.ok THEN ParseFail
        ELSE IF SkipWS(s, v.next) = Len(s) + 1 THEN v ELSE ParseFail

(***************************************************************************)
(* json.Unmarshal into the result targets of the operations.  A result     *)
(* type is "string", "bool", "int", "Tenant", or "none" when the operation *)
(* passes a nil result.  The other result types (maps, Database,           *)
(* Collection, slices, GetResult, QueryResult) have their zero value only: *)
(* the calls that use them are answered without a body.                    *)
(***************************************************************************)
ResultTypes == {"string", "bool", "int", "Tenant"}

ZeroValue(T) ==
    CASE T = "string" -> <<>>
      [] T = "bool" -> FALSE
      [] T = "int" -> 0
      [] T = "Tenant" -> [Name |-> <<>>]
      [] T = "none" -> <<>>
      [] T = "map" -> <<>>
      [] T = "PreflightChecks" -> <<>>
      [] T = "Database" -> [ID |-> <<>>, Name |-> <<>>, Tenant |-> <<>>]
      [] T = "Collection" ->
           [ID |-> <<>>, Name |-> <<>>, Tenant |-> <<>>, Database |-> <<>>,
            LogPosition |-> 0, Version |-> 0]
      [] T = "[]Collection" -> <<>>
      [] T = "[]string" -> <<>>
      [] T = "GetResult" -> [IDs |-> <<>>, Include |-> <<>>]
      [] T = "QueryResult" -> [IDs |-> <<>>, Include |-> <<>>]

Decoded(value) == [err |-> FALSE, value |-> value]
DecodeError(value) == [err |-> TRUE, value |-> value]

\* a JSON null leaves these targets as they are; a value of another JSON
\* type is an UnmarshalTypeError
AssignScalar(v, want, cur) ==
    IF v.t = "null" THEN Decoded(cur)
    ELSE IF v.t # want THEN DecodeError(cur)
    ELSE CASE want = "str" -> Decoded(v.s)
           [] want = "num" -> Decoded(v.n)
           [] want = "bool" -> Decoded(v.b)

ToLower(ch) == IF ch = "N" THEN "n" ELSE ch
EqualFold(a, b) ==
    /\ Len(a) = Len(b)
    /\ \A i \in 1..Len(a) : ToLower(a[i]) = ToLower(b[i])

NameKey == <<"n", "a", "m", "e">>

\* the members of an object decoded into a Tenant: the key matching the
\* field's tag (case-insensitively) is decoded into Name, other keys are
\* skipped, and a type error is remembered while decoding goes on
RECURSIVE AssignTenantMembers(_, _, _)
AssignTenantMembers(ms, cur, err) ==
    IF ms = <<>> THEN [err |-> err, value |-> cur]
    ELSE IF EqualFold(Head(ms)[1], NameKey)
    THEN LET f == AssignScalar(Head(ms)[2], "str", cur.Name)
         IN  AssignTenantMembers(Tail(ms), [cur EXCEPT !.Name = f.value],
                                 err \/ f.err)
    ELSE AssignTenantMembers(Tail(ms), cur, err)

AssignValue(v, T, cur) ==
    CASE T = "string" -> AssignScalar(v, "str", cur)
      [] T = "int" -> AssignScalar(v, "num", cur)
      [] T = "bool" -> AssignScalar(v, "bool", cur)
      [] T = "Tenant" ->
           IF v.t = "null" THEN Decoded(cur)
           ELSE IF v.t = "obj" THEN AssignTenantMembers(v.m, cur, FALSE)
           ELSE DecodeError(cur)

\* json.Unmarshal(data, target): a syntax error leaves the target alone
Unmarshal(data, T, cur) ==
    LET p == ParseDocument(data)
    IN  IF ~p.ok THEN DecodeError(cur) ELSE AssignValue(p.val, T, cur)

(***************************************************************************)
(* Request values and json.Marshal.                                        *)
(***************************************************************************)
NoBody == [type |-> "nil"]
CreateTenantReq(name) == [type |-> "CreateTenant", Name |-> name]
AddEmbeddingReq(ids, embeddings) ==
    [type |-> "AddEmbedding", IDs |-> ids, Embeddings |-> embeddings]

CreateDatabaseReq(name) == [type |-> "CreateDatabase", Name |-> name]
CreateCollectionReq(name) == [type |-> "CreateCollection", Name |-> name]
\* NewName is a *string: absent, or present with a value
UpdateCollectionReq(hasNewName, newName) ==
    [type |-> "UpdateCollection", HasNewName |-> hasNewName,
     NewName |-> newName]
UpdateEmbeddingReq(ids, embeddings) ==
    [type |-> "UpdateEmbedding", IDs |-> ids, Embeddings |-> embeddings]
GetEmbeddingReq(ids) == [type |-> "GetEmbedding", IDs |-> ids]
DeleteEmbeddingReq(ids) == [type |-> "DeleteEmbedding", IDs |-> ids]
QueryEmbeddingReq(queryEmbeddings) ==
    [type |-> "QueryEmbedding", QueryEmbeddings |-> queryEmbeddings]

Float(n) == [nan |-> FALSE, v |-> n]
NaN == [nan |-> TRUE, v |-> 0]

HasNaN(embeddings) ==
    \E i \in 1..Len(embeddings) :
        \E j \in 1..Len(embeddings[i]) : embeddings[i][j].nan

IDsKey == <<"i", "d", "s">>
EmbeddingsKey == <<"e", "m", "b", "e", "d", "d", "i", "n", "g", "s">>
NewNameKey == <<"n", "e", "w", "_", "n", "a", "m", "e">>
QueryEmbeddingsKey ==
    <<"q", "u", "e", "r", "y", "_">>
    \o EmbeddingsKey

\* a []string and a [][]float64 as JSON arrays
StringsToJSON(ids) == JArr([i \in 1..Len(ids) |-> JStr(ids[i])])
FloatsToJSON(embeddings) ==
    JArr([i \in 1..Len(embeddings) |->
          JArr([j \in 1..Len(embeddings[i]) |-> JNum(embeddings[i][j].v)])])

\* the JSON value of a request struct, by its field tags
ReqToJSON(body) ==
    CASE body.type = "CreateTenant" -> JObj(<< <<NameKey, JStr(body.Name)>> >>)
      [] body.type = "AddEmbedding" ->
           JObj(<< <<IDsKey,
                     JArr([i \in 1..Len(body.IDs) |-> JStr(body.IDs[i])])>> >>
                \o (IF body.Embeddings = <<>> THEN <<>>
                    ELSE << <<EmbeddingsKey,
                              JArr([i \in 1..Len(body.Embeddings) |->
                                    JArr([j \in 1..Len(body.Embeddings[i]) |->
                                          JNum(body.Embeddings[i][j].v)])])>> >>))
      [] body.type = "CreateDatabase" ->
           JObj(<< <<NameKey, JStr(body.Name)>> >>)
      [] body.type = "CreateCollection" ->
           JObj(<< <<NameKey, JStr(body.Name)>> >>)
      [] body.type = "UpdateCollection" ->
           JObj(IF body.HasNewName
                THEN << <<NewNameKey, JStr(body.NewName)>> >>
                ELSE <<>>)
      [] body.type = "UpdateEmbedding" ->
           JObj(<< <<IDsKey, StringsToJSON(body.IDs)>> >>
                \o (IF body.Embeddings = <<>> THEN <<>>
                    ELSE << <<EmbeddingsKey,
                              FloatsToJSON(body.Embeddings)>> >>))
      [] body.type \in {"GetEmbedding", "DeleteEmbedding"} ->
           JObj(IF body.IDs = <<>> THEN <<>>
                ELSE << <<IDsKey, StringsToJSON(body.IDs)>> >>)
      [] body.type = "QueryEmbedding" ->
           JObj(<< <<QueryEmbeddingsKey,
                     FloatsToJSON(body.QueryEmbeddings)>> >>)

\* json.Marshal(body): a NaN among the floats is an UnsupportedValueError
Marshal(body) ==
    IF \/ body.type \in {"AddEmbedding", "UpdateEmbedding"}
          /\ HasNaN(body.Embeddings)
       \/ body.type = "QueryEmbedding" /\ HasNaN(body.QueryEmbeddings)
    THEN [err |-> TRUE, bytes |-> <<>>]
    ELSE [err |-> FALSE, bytes |-> Encode(ReqToJSON(body))]

(***************************************************************************)
(* Errors.                                                                 *)
(***************************************************************************)
NoError == [kind |-> "nil", msg |-> "", StatusCode |-> 0, Message |-> <<>>]
\* fmt.Errorf("<msg>: %w", err)
Wrapped(msg) ==
    [kind |-> "wrapped", msg |-> msg, StatusCode |-> 0, Message |-> <<>>]
\* &HTTPError{StatusCode: ..., Message: ...}
HTTPError(status, message) ==
    [kind |-> "HTTPError", msg |-> "", StatusCode |-> status,
     Message |-> message]

\* err.(*HTTPError) succeeds
IsHTTPError(err) == err.kind = "HTTPError"

\* an Error method that reports the class of the status before the message
ErrorWithStatusClass(e) ==
    (IF e.StatusCode >= 500 THEN <<"5", "x", "x", ":", " ">>
     ELSE IF e.StatusCode >= 400 THEN <<"4", "x", "x", ":", " ">>
     ELSE <<"H", "T", "T", "P", ":", " ">>) \o e.Message

\* func (e *HTTPError) Error() string
Error(e) == e.Message

(***************************************************************************)
(* URLs and paths.                                                         *)
(***************************************************************************)
LowerLetters ==
    {"a", "b", "c", "d", "e", "f", "g", "h", "i", "j", "k", "l", "m", "n",
     "o", "p", "q", "r", "s", "t", "u", "v", "w", "x", "y", "z"}
HexChars ==
    {"0", "1", "2", "3", "4", "5", "6", "7", "8", "9",
     "a", "b", "c", "d", "e", "f", "A", "B", "C", "D", "E", "F"}

\* url.QueryEscape leaves letters, digits and - _ . ~ as they are
Unreserved ==
    LowerLetters \cup {"N"} \cup {DigitChars[d] : d \in 1..Len(DigitChars)}
    \cup {"-", "_", ".", "~"}

\* "%XX" of the characters the model uses
PercentCode(ch) ==
    CASE ch = "/" -> <<"%", "2", "F">>
      [] ch = "%" -> <<"%", "2", "5">>
      [] ch = "?" -> <<"%", "3", "F">>
      [] ch = "#" -> <<"%", "2", "3">>
      [] ch = ":" -> <<"%", "3", "A">>
      [] ch = "\"" -> <<"%", "2", "2">>
      [] ch = "\n" -> <<"%", "0", "A">>

RECURSIVE QueryEscape(_)
QueryEscape(s) ==
    IF s = <<>> THEN <<>>
    ELSE (IF Head(s) \in Unreserved THEN <<Head(s)>>
          ELSE IF Head(s) = " " THEN <<"+">>
          ELSE PercentCode(Head(s)))
         \o QueryEscape(Tail(s))

\* url.Parse accepts the string: every % starts a two-digit hex escape
URLParses(u) ==
    \A i \in 1..Len(u) :
        u[i] = "%" =>
            /\ i + 2 <= Len(u)
            /\ u[i + 1] \in HexChars
            /\ u[i + 2] \in HexChars

\* the literal segments of the path templates
SegApi == <<"a", "p", "i">>
SegV2 == <<"v", "2">>
SegVersion == <<"v", "e", "r", "s", "i", "o", "n">>
SegReset == <<"r", "e", "s", "e", "t">>
SegTenants == <<"t", "e", "n", "a", "n", "t", "s">>
SegDatabases == <<"d", "a", "t", "a", "b", "a", "s", "e", "s">>
SegCollections == <<"c", "o", "l", "l", "e", "c", "t", "i", "o", "n", "s">>
SegCount == <<"c", "o", "u", "n", "t">>
SegAdd == <<"a", "d", "d">>
SegHeartbeat == <<"h", "e", "a", "r", "t", "b", "e", "a", "t">>
SegPreFlightChecks ==
    <<"p", "r", "e", "-", "f", "l", "i", "g", "h", "t", "-", "c", "h", "e", "c", "k", "s">>
SegCollectionsCount ==
    SegCollections \o <<"_", "c", "o", "u", "n", "t">>
SegUpdate == <<"u", "p", "d", "a", "t", "e">>
SegUpsert == <<"u", "p", "s", "e", "r", "t">>
SegGet == <<"g", "e", "t">>
SegDelete == <<"d", "e", "l", "e", "t", "e">>
SegQuery == <<"q", "u", "e", "r", "y">>

\* fmt.Sprintf of a template "/%s/%s/...": each segment after a slash
RECURSIVE JoinPath(_)
JoinPath(segs) ==
    IF segs = <<>> THEN <<>>
    ELSE <<"/">> \o Head(segs) \o JoinPath(Tail(segs))

(***************************************************************************)
(* The public operations: what each hands to doRequest.                    *)
(***************************************************************************)
\* tenantArgs is the variadic "tenant ...string" of CreateDatabase and
\* GetDatabase: the sequence of the strings passed
Invocation(op, name, tenant, database, req) ==
    [op |-> op, name |-> name, tenant |-> tenant, database |-> database,
     req |-> req, tenantArgs |-> <<>>]
VariadicInvocation(op, name, tenantArgs, req) ==
    [Invocation(op, name, <<>>, <<>>, req) EXCEPT !.tenantArgs = tenantArgs]
NoInvocation == Invocation("", <<>>, <<>>, <<>>, NoBody)

DoRequestArgs(method, path, body, resultType) ==
    [method |-> method, path |-> path, body |-> body,
     resultType |-> resultType]

Root(c, inv) ==
    DoRequestArgs("GET", JoinPath(<<SegApi, SegV2>>), NoBody, "map")
\* the heartbeat asked of the v1 prefix
HeartbeatOnV1(c, inv) ==
    DoRequestArgs("GET", JoinPath(<<SegApi, <<"v", "1">>, SegHeartbeat>>),
                  NoBody, "map")
Heartbeat(c, inv) ==
    DoRequestArgs("GET", JoinPath(<<SegApi, SegV2, SegHeartbeat>>), NoBody,
                  "map")
PreFlightChecks(c, inv) ==
    DoRequestArgs("GET", JoinPath(<<SegApi, SegV2, SegPreFlightChecks>>),
                  NoBody, "PreflightChecks")
Version(c, inv) ==
    DoRequestArgs("GET", JoinPath(<<SegApi, SegV2, SegVersion>>), NoBody,
                  "string")
Reset(c, inv) ==
    DoRequestArgs("POST", JoinPath(<<SegApi, SegV2, SegReset>>), NoBody,
                  "bool")
CreateTenant(c, inv) ==
    DoRequestArgs("POST", JoinPath(<<SegApi, SegV2, SegTenants>>), inv.req,
                  "Tenant")
GetTenant(c, inv) ==
    DoRequestArgs("GET", JoinPath(<<SegApi, SegV2, SegTenants, inv.name>>),
                  NoBody, "Tenant")
CreateDatabase(c, inv) ==
    LET tenantName == IF Len(inv.tenantArgs) > 0 THEN inv.tenantArgs[1]
                      ELSE c.tenant
    IN  DoRequestArgs("POST",
                      JoinPath(<<SegApi, SegV2, SegTenants,
                                 QueryEscape(tenantName), SegDatabases>>),
                      inv.req, "Database")
\* the database looked up under the client's tenant whatever was passed
GetDatabaseOfClientTenant(c, inv) ==
    DoRequestArgs("GET",
                  JoinPath(<<SegApi, SegV2, SegTenants, QueryEscape(c.tenant),
                             SegDatabases, inv.name>>),
                  NoBody, "Database")
GetDatabase(c, inv) ==
    LET tenantName == IF Len(inv.tenantArgs) > 0 THEN inv.tenantArgs[1]
                      ELSE c.tenant
    IN  DoRequestArgs("GET",
                      JoinPath(<<SegApi, SegV2, SegTenants,
                                 QueryEscape(tenantName), SegDatabases,
                                 inv.name>>),
                      NoBody, "Database")
ListCollections(c, inv) ==
    LET tenant == IF inv.tenant = <<>> THEN c.tenant ELSE inv.tenant
        database == IF inv.database = <<>> THEN c.database ELSE inv.database
    IN  DoRequestArgs("GET",
                      JoinPath(<<SegApi, SegV2, SegTenants,
                                 QueryEscape(tenant), SegDatabases,
                                 QueryEscape(database), SegCollections>>),
                      NoBody, "[]Collection")
CountCollections(c, inv) ==
    LET tenant == IF inv.tenant = <<>> THEN c.tenant ELSE inv.tenant
        database == IF inv.database = <<>> THEN c.database ELSE inv.database
    IN  DoRequestArgs("GET",
                      JoinPath(<<SegApi, SegV2, SegTenants,
                                 QueryEscape(tenant), SegDatabases,
                                 QueryEscape(database), SegCollectionsCount>>),
                      NoBody, "int")
CreateCollection(c, inv) ==
    LET tenant == IF inv.tenant = <<>> THEN c.tenant ELSE inv.tenant
        database == IF inv.database = <<>> THEN c.database ELSE inv.database
    IN  DoRequestArgs("POST",
                      JoinPath(<<SegApi, SegV2, SegTenants,
                                 QueryEscape(tenant), SegDatabases,
                                 QueryEscape(database), SegCollections>>),
                      inv.req, "Collection")
GetCollection(c, inv) ==
    LET tenant == IF inv.tenant = <<>> THEN c.tenant ELSE inv.tenant
        database == IF inv.database = <<>> THEN c.database ELSE inv.database
    IN  DoRequestArgs("GET",
                      JoinPath(<<SegApi, SegV2, SegTenants,
                                 QueryEscape(tenant), SegDatabases,
                                 QueryEscape(database), SegCollections,
                                 inv.name>>),
                      NoBody, "Collection")
DeleteCollection(c, inv) ==
    LET tenant == IF inv.tenant = <<>> THEN c.tenant ELSE inv.tenant
        database == IF inv.database = <<>> THEN c.database ELSE inv.database
    IN  DoRequestArgs("DELETE",
                      JoinPath(<<SegApi, SegV2, SegTenants,
                                 QueryEscape(tenant), SegDatabases,
                                 QueryEscape(database), SegCollections,
                                 inv.name>>),
                      NoBody, "none")
UpdateCollection(c, inv) ==
    DoRequestArgs("PUT",
                  JoinPath(<<SegApi, SegV2, SegCollections, inv.name>>),
                  inv.req, "Collection")
Add(c, inv) ==
    DoRequestArgs("POST",
                  JoinPath(<<SegApi, SegV2, SegCollections, inv.name, SegAdd>>),
                  inv.req, "none")
\* Count addressing the collection under the client's tenant and database
CountUnderClientScope(c, inv) ==
    DoRequestArgs("GET",
                  JoinPath(<<SegApi, SegV2, SegTenants, QueryEscape(c.tenant),
                             SegDatabases, QueryEscape(c.database),
                             SegCollections, inv.name, SegCount>>),
                  NoBody, "int")
Count(c, inv) ==
    DoRequestArgs("GET",
                  JoinPath(<<SegApi, SegV2, SegCollections, inv.name,
                             SegCount>>),
                  NoBody, "int")
Update(c, inv) ==
    DoRequestArgs("POST",
                  JoinPath(<<SegApi, SegV2, SegCollections, inv.name,
                             SegUpdate>>),
                  inv.req, "none")
Upsert(c, inv) ==
    DoRequestArgs("POST",
                  JoinPath(<<SegApi, SegV2, SegCollections, inv.name,
                             SegUpsert>>),
                  inv.req, "none")
Get(c, inv) ==
    DoRequestArgs("POST",
                  JoinPath(<<SegApi, SegV2, SegCollections, inv.name,
                             SegGet>>),
                  inv.req, "GetResult")
Delete(c, inv) ==
    DoRequestArgs("POST",
                  JoinPath(<<SegApi, SegV2, SegCollections, inv.name,
                             SegDelete>>),
                  inv.req, "[]string")
Query(c, inv) ==
    DoRequestArgs("POST",
                  JoinPath(<<SegApi, SegV2, SegCollections, inv.name,
                             SegQuery>>),
                  inv.req, "QueryResult")

\* the operations that return "&result, err", and those that return the
\* error alone
PointerOps ==
    {"CreateTenant", "GetTenant", "CreateDatabase", "GetDatabase",
     "CreateCollection", "GetCollection", "UpdateCollection", "Get", "Query"}
ErrorOnlyOps == {"DeleteCollection", "Add", "Update", "Upsert"}

\* the return statement of an operation: its result variable, or a
\* pointer to it, with the error of doRequest, whatever that error is
ReturnValues(op, result, err) ==
    [pointer |-> op \in PointerOps, nil |-> FALSE,
     value |-> IF op \in ErrorOnlyOps THEN <<>> ELSE result, err |-> err]

Operation(c, inv) ==
    CASE inv.op = "Version" -> Version(c, inv)
      [] inv.op = "Reset" -> Reset(c, inv)
      [] inv.op = "CreateTenant" -> CreateTenant(c, inv)
      [] inv.op = "GetTenant" -> GetTenant(c, inv)
      [] inv.op = "DeleteCollection" -> DeleteCollection(c, inv)
      [] inv.op = "Add" -> Add(c, inv)
      [] inv.op = "Count" -> Count(c, inv)
      [] inv.op = "Root" -> Root(c, inv)
      [] inv.op = "Heartbeat" -> Heartbeat(c, inv)
      [] inv.op = "PreFlightChecks" -> PreFlightChecks(c, inv)
      [] inv.op = "CreateDatabase" -> CreateDatabase(c, inv)
      [] inv.op = "GetDatabase" -> GetDatabase(c, inv)
      [] inv.op = "ListCollections" -> ListCollections(c, inv)
      [] inv.op = "CountCollections" -> CountCollections(c, inv)
      [] inv.op = "CreateCollection" -> CreateCollection(c, inv)
      [] inv.op = "GetCollection" -> GetCollection(c, inv)
      [] inv.op = "UpdateCollection" -> UpdateCollection(c, inv)
      [] inv.op = "Update" -> Update(c, inv)
      [] inv.op = "Upsert" -> Upsert(c, inv)
      [] inv.op = "Get" -> Get(c, inv)
      [] inv.op = "Delete" -> Delete(c, inv)
      [] inv.op = "Query" -> Query(c, inv)

(***************************************************************************)
(* doRequest, in the three stretches between its blocking calls.           *)
(***************************************************************************)
NoRequest ==
    [method |-> "", url |-> <<>>, contentType |-> FALSE, body |-> <<>>]
NoResponse == [status |-> 0, isJSON |-> FALSE, sent |-> JNull, bytes |-> <<>>]

\* the wire request given the JSON content type whatever the body
BuildRequestAlwaysJSON(c, ctx, args) ==
    LET hasBody == args.body.type # "nil"
        m == Marshal(args.body)
        url == c.baseURL \o args.path
    IN  IF hasBody /\ m.err
        THEN [err |-> Wrapped("failed to marshal request body"),
              req |-> NoRequest]
        ELSE IF ctx = "nil" \/ ~URLParses(url)
        THEN [err |-> Wrapped("failed to create request"), req |-> NoRequest]
        ELSE [err |-> NoError,
              req |-> [method |-> args.method, url |-> url,
                       contentType |-> TRUE,
                       body |-> IF hasBody THEN m.bytes ELSE <<>>]]

\* the wire request refused when its path has an empty segment
BuildRequestRejectingEmptySegment(c, ctx, args) ==
    LET hasBody == args.body.type # "nil"
        m == Marshal(args.body)
        url == c.baseURL \o args.path
        emptySegment ==
            \E i \in 1..(Len(args.path) - 1) :
                args.path[i] = "/" /\ args.path[i + 1] = "/"
    IN  IF hasBody /\ m.err
        THEN [err |-> Wrapped("failed to marshal request body"),
              req |-> NoRequest]
        ELSE IF ctx = "nil" \/ ~URLParses(url) \/ emptySegment
        THEN [err |-> Wrapped("failed to create request"), req |-> NoRequest]
        ELSE [err |-> NoError,
              req |-> [method |-> args.method, url |-> url,
                       contentType |-> hasBody,
                       body |-> IF hasBody THEN m.bytes ELSE <<>>]]

\* the wire request with the client's tenant added as a query parameter
BuildRequestAddingTenant(c, ctx, args) ==
    LET hasBody == args.body.type # "nil"
        m == Marshal(args.body)
        url == c.baseURL \o args.path
               \o <<"?", "t", "e", "n", "a", "n", "t", "=">>
               \o QueryEscape(c.tenant)
    IN  IF hasBody /\ m.err
        THEN [err |-> Wrapped("failed to marshal request body"),
              req |-> NoRequest]
        ELSE IF ctx = "nil" \/ ~URLParses(url)
        THEN [err |-> Wrapped("failed to create request"), req |-> NoRequest]
        ELSE [err |-> NoError,
              req |-> [method |-> args.method, url |-> url,
                       contentType |-> hasBody,
                       body |-> IF hasBody THEN m.bytes ELSE <<>>]]

\* the wire request built for a nil context too
BuildRequestAcceptingNilContext(c, ctx, args) ==
    LET hasBody == args.body.type # "nil"
        m == Marshal(args.body)
        url == c.baseURL \o args.path
    IN  IF hasBody /\ m.err
        THEN [err |-> Wrapped("failed to marshal request body"),
              req |-> NoRequest]
        ELSE IF ~URLParses(url)
        THEN [err |-> Wrapped("failed to create request"), req |-> NoRequest]
        ELSE [err |-> NoError,
              req |-> [method |-> args.method, url |-> url,
                       contentType |-> hasBody,
                       body |-> IF hasBody THEN m.bytes ELSE <<>>]]

\* up to the transport call: marshal the body, build the wire request
BuildRequest(c, ctx, args) ==
    LET hasBody == args.body.type # "nil"
        m == Marshal(args.body)
        url == c.baseURL \o args.path
    IN  IF hasBody /\ m.err
        THEN [err |-> Wrapped("failed to marshal request body"),
              req |-> NoRequest]
        ELSE IF ctx = "nil" \/ ~URLParses(url)
        THEN [err |-> Wrapped("failed to create request"), req |-> NoRequest]
        ELSE [err |-> NoError,
              req |-> [method |-> args.method, url |-> url,
                       contentType |-> hasBody,
                       body |-> IF hasBody THEN m.bytes ELSE <<>>]]

\* only 200 taken for success
IsNot200(status) == status # 200

IsFailureStatus(status) == status < 200 \/ status >= 300

\* the body with its trailing white space trimmed
TrimmedMessageOf(respBody) ==
    IF respBody # <<>> /\ IsWS(respBody[Len(respBody)])
    THEN SubSeq(respBody, 1, Len(respBody) - 1)
    ELSE respBody

\* string(respBody)
MessageOf(respBody) == respBody

\* the rest of doRequest decoding an empty body too
ClassifyDecodingEmpty(status, respBody, resultType, target) ==
    IF IsFailureStatus(status)
    THEN [err |-> HTTPError(status, MessageOf(respBody)), result |-> target]
    ELSE IF resultType # "none"
    THEN LET u == Unmarshal(respBody, resultType, target)
         IN  IF u.err
             THEN [err |-> Wrapped("failed to unmarshal response"),
                   result |-> u.value]
             ELSE [err |-> NoError, result |-> u.value]
    ELSE [err |-> NoError, result |-> target]

\* the rest of doRequest reporting a decode failure as an HTTPError
ClassifyDecodeFailureAsHTTPError(status, respBody, resultType, target) ==
    IF IsFailureStatus(status)
    THEN [err |-> HTTPError(status, MessageOf(respBody)), result |-> target]
    ELSE IF resultType # "none" /\ Len(respBody) > 0
    THEN LET u == Unmarshal(respBody, resultType, target)
         IN  IF u.err
             THEN [err |-> HTTPError(status, MessageOf(respBody)),
                   result |-> u.value]
             ELSE [err |-> NoError, result |-> u.value]
    ELSE [err |-> NoError, result |-> target]

\* the rest of doRequest decoding the body of a failure response into the
\* result target before reporting the HTTPError
ClassifyDecodingFailureBody(status, respBody, resultType, target) ==
    IF IsFailureStatus(status)
    THEN [err |-> HTTPError(status, MessageOf(respBody)),
          result |-> IF resultType # "none" /\ Len(respBody) > 0
                     THEN Unmarshal(respBody, resultType, target).value
                     ELSE target]
    ELSE IF resultType # "none" /\ Len(respBody) > 0
    THEN LET u == Unmarshal(respBody, resultType, target)
         IN  IF u.err
             THEN [err |-> Wrapped("failed to unmarshal response"),
                   result |-> u.value]
             ELSE [err |-> NoError, result |-> u.value]
    ELSE [err |-> NoError, result |-> target]

\* after the body was read: classify the status, decode the result
Classify(status, respBody, resultType, target) ==
    IF IsFailureStatus(status)
    THEN [err |-> HTTPError(status, MessageOf(respBody)), result |-> target]
    ELSE IF resultType # "none" /\ Len(respBody) > 0
    THEN LET u == Unmarshal(respBody, resultType, target)
         IN  IF u.err
             THEN [err |-> Wrapped("failed to unmarshal response"),
                   result |-> u.value]
             ELSE [err |-> NoError, result |-> u.value]
    ELSE [err |-> NoError, result |-> target]

(***************************************************************************)
(* The inputs of the operation calls and the answers of the server.        *)
(***************************************************************************)
Callers == {"c1", "c2"}
MainCallers == {"c1"}

\* context.Context arguments: nil, not yet cancelled, already cancelled
Contexts == {"nil", "live", "cancelled"}

Names == {<<"c">>, <<"%">>}

Invocations ==
    {Invocation("Version", <<>>, <<>>, <<>>, NoBody),
     Invocation("Reset", <<>>, <<>>, <<>>, NoBody)}
    \cup {Invocation("CreateTenant", <<>>, <<>>, <<>>, CreateTenantReq(<<"t">>))}
    \cup {Invocation("GetTenant", n, <<>>, <<>>, NoBody) : n \in Names}
    \cup {Invocation("DeleteCollection", <<"c">>, t, <<>>, NoBody) :
            t \in {<<>>, <<"x">>}}
    \cup {Invocation("Add", <<"c">>, <<>>, <<>>, r) :
            r \in {AddEmbeddingReq(<<<<"i">>>>, <<>>),
                   AddEmbeddingReq(<<<<"i">>>>, <<<<Float(1), Float(20)>>>>),
                   AddEmbeddingReq(<<<<"i">>>>, <<<<Float(1), NaN>>>>)}}
    \cup {Invocation("Count", n, <<>>, <<>>, NoBody) : n \in Names}

\* the option lists of the clients the operations are called on
CallOptionLists ==
    {<<>>,
     <<WithBaseURL(<<"a", "/">>)>>,
     <<WithHTTPClient(NilHTTPClient)>>,
     <<WithHTTPClient(HTTPClient(0)), WithTenant(<<"t">>)>>}

Statuses == {199, 200, 201, 299, 300, 404, 500}

VersionText == <<"0", ".", "4", ".", "2", "4">>
NotFoundText ==
    <<"C", "o", "l", "l", "e", "c", "t", "i", "o", "n", " ",
      "n", "o", "t", " ", "f", "o", "u", "n", "d">>

JSONValues ==
    {JStr(VersionText), JStr(<<>>), JNum(0), JNum(42), JBool(TRUE),
     JBool(FALSE), JNull, JArr(<<JStr(<<"x">>)>>), JObj(<<>>),
     JObj(<< <<NameKey, JStr(<<"t">>)>> >>),
     JObj(<< <<NameKey, JNum(7)>> >>),
     JObj(<< <<<<"i", "d">>, JNum(5)>>, <<NameKey, JStr(<<"t">>)>> >>),
     JObj(<< <<<<"N", "a", "m", "e">>, JStr(<<"u">>)>> >>)}

JSONReply(v, bytes) == [isJSON |-> TRUE, sent |-> v, bytes |-> bytes]
TextReply(bytes) == [isJSON |-> FALSE, sent |-> JNull, bytes |-> bytes]

\* what the server writes: a JSON value by its encoder (json.NewEncoder
\* adds a newline), or text that is no JSON document
Replies ==
    {JSONReply(v, Encode(v)) : v \in JSONValues}
    \cup {JSONReply(v, Encode(v) \o <<"\n">>) :
            v \in {JStr(VersionText), JNum(42)}}
    \cup {TextReply(b) :
            b \in {<<>>, NotFoundText, <<"\"", "v">>, <<"0", "1">>,
                   <<"{", "\"", "a", "\"", "}">>, <<"7", " ", "x">>}}

(***************************************************************************)
(* The state machine.                                                      *)
(***************************************************************************)
\* the arguments of doRequest before any operation has passed them
NoArgs == DoRequestArgs("", <<>>, NoBody, "none")

IdleCall ==
    [pc |-> "idle", inv |-> NoInvocation, ctx |-> "live", timedOut |-> FALSE,
     args |-> NoArgs, req |-> NoRequest, doCount |-> 0, resp |-> NoResponse, read |-> "none",
     closed |-> 0, err |-> NoError, result |-> <<>>]

Init ==
    /\ client = NoClient
    /\ opts = <<>>
    /\ calls = [k \in Callers |-> IdleCall]

\* NewClient(opts...), the options being one of the given lists
NewClient(lists) ==
    /\ ~client.constructed
    /\ \E os \in lists :
           /\ client' = ApplyOptions(DefaultClient, os)
           /\ opts' = os
    /\ UNCHANGED calls

\* the context was cancelled or the client's timer has fired; net/http has
\* both govern the exchange and the reading of the body, so from then on
\* Do and the read of resp.Body return an error
Interrupted(call) == call.ctx = "cancelled" \/ call.timedOut

\* an operation that keeps the tenant and database it was passed as the
\* client's own from then on
CallRememberingScope(k, inv, ctx) ==
    /\ client.constructed
    /\ calls[k].pc = "idle"
    /\ LET args == Operation(client, inv)
           built == BuildRequest(client, ctx, args)
           entered == [IdleCall EXCEPT !.inv = inv, !.ctx = ctx,
                                       !.args = args,
                                       !.result = ZeroValue(args.resultType)]
       IN  calls' = [calls EXCEPT ![k] =
               IF built.err # NoError
               THEN [entered EXCEPT !.pc = "done", !.err = built.err]
               ELSE [entered EXCEPT !.pc = "sending", !.req = built.req]]
    /\ client' = [client EXCEPT
           !.tenant = IF inv.tenant # <<>> THEN inv.tenant ELSE @,
           !.database = IF inv.database # <<>> THEN inv.database ELSE @]
    /\ UNCHANGED opts

\* A caller enters an operation: the operation's prelude and doRequest up
\* to the transport call.
Call(k, inv, ctx) ==
    /\ client.constructed
    /\ calls[k].pc = "idle"
    /\ LET args == Operation(client, inv)
           built == BuildRequest(client, ctx, args)
           entered == [IdleCall EXCEPT !.inv = inv, !.ctx = ctx,
                                       !.args = args,
                                       !.result = ZeroValue(args.resultType)]
       IN  calls' = [calls EXCEPT ![k] =
               IF built.err # NoError
               THEN [entered EXCEPT !.pc = "done", !.err = built.err]
               ELSE [entered EXCEPT !.pc = "sending", !.req = built.req]]
    /\ UNCHANGED <<client, opts>>

\* the caller's context is cancelled while the request is in flight
Cancel(k) ==
    /\ calls[k].pc \in {"sending", "reading"}
    /\ calls[k].ctx = "live"
    /\ calls' = [calls EXCEPT ![k].ctx = "cancelled"]
    /\ UNCHANGED <<client, opts>>

\* the timer of http.Client.Timeout fires while the request is in flight
TimeoutFires(k) ==
    /\ calls[k].pc \in {"sending", "reading"}
    /\ ~calls[k].timedOut
    /\ ~client.httpClient.nil
    /\ client.httpClient.timeout > 0
    /\ calls' = [calls EXCEPT ![k].timedOut = TRUE]
    /\ UNCHANGED <<client, opts>>

\* the transport call tried a second time after a failed exchange
DoRetrying(k) ==
    /\ calls[k].pc = "sending"
    /\ \/ /\ client.httpClient.nil
          /\ calls' = [calls EXCEPT ![k].pc = "panicked",
                                    ![k].doCount = @ + 1]
       \/ /\ ~client.httpClient.nil
          /\ calls' = [calls EXCEPT
                 ![k].pc = "done",
                 ![k].doCount = @ + 2,
                 ![k].err = Wrapped("failed to perform request")]
       \/ /\ ~client.httpClient.nil
          /\ ~Interrupted(calls[k])
          /\ \E status \in Statuses, reply \in Replies, tries \in {1, 2} :
                 calls' = [calls EXCEPT
                     ![k].pc = "reading",
                     ![k].doCount = @ + tries,
                     ![k].resp = [status |-> status, isJSON |-> reply.isJSON,
                                  sent |-> reply.sent, bytes |-> reply.bytes]]
    /\ UNCHANGED <<client, opts>>

\* resp, err := c.httpClient.Do(req): a nil client panics, an interrupted
\* exchange fails, any exchange may fail, otherwise the server answers with
\* one of the given statuses and replies
DoWith(k, statuses, replies) ==
    /\ calls[k].pc = "sending"
    /\ \/ /\ client.httpClient.nil
          /\ calls' = [calls EXCEPT ![k].pc = "panicked",
                                    ![k].doCount = @ + 1]
       \/ /\ ~client.httpClient.nil
          /\ calls' = [calls EXCEPT
                 ![k].pc = "done",
                 ![k].doCount = @ + 1,
                 ![k].err = Wrapped("failed to perform request")]
       \/ /\ ~client.httpClient.nil
          /\ ~Interrupted(calls[k])
          /\ \E status \in statuses, reply \in replies :
                 calls' = [calls EXCEPT
                     ![k].pc = "reading",
                     ![k].doCount = @ + 1,
                     ![k].resp = [status |-> status, isJSON |-> reply.isJSON,
                                  sent |-> reply.sent, bytes |-> reply.bytes]]
    /\ UNCHANGED <<client, opts>>

Do(k) == DoWith(k, Statuses, Replies)

\* the rest of doRequest with the error of io.ReadAll dropped: what was
\* read before the failure (here nothing) is classified as the body
ReadAllIgnoringError(k) ==
    /\ calls[k].pc = "reading"
    /\ \E whole \in BOOLEAN :
          /\ whole => ~Interrupted(calls[k])
          /\ LET body == IF whole THEN calls[k].resp.bytes ELSE <<>>
                 out == Classify(calls[k].resp.status, body,
                                 Operation(client, calls[k].inv).resultType,
                                 calls[k].result)
             IN  calls' = [calls EXCEPT
                     ![k].pc = "done",
                     ![k].read = IF whole THEN "ok" ELSE "failed",
                     ![k].closed = @ + 1,
                     ![k].err = out.err,
                     ![k].result = out.result]
    /\ UNCHANGED <<client, opts>>

\* the rest of doRequest reading through a buffer all calls share: the
\* body classified is that of whichever response came in last
ReadAllShared(k) ==
    /\ calls[k].pc = "reading"
    /\ \/ calls' = [calls EXCEPT
              ![k].pc = "done",
              ![k].read = "failed",
              ![k].closed = @ + 1,
              ![k].err = Wrapped("failed to read response body")]
       \/ /\ ~Interrupted(calls[k])
          /\ \E j \in Callers :
                 /\ calls[j].resp # NoResponse
                 /\ LET out == Classify(calls[j].resp.status,
                                        calls[j].resp.bytes,
                                        Operation(client,
                                                  calls[k].inv).resultType,
                                        calls[k].result)
                    IN  calls' = [calls EXCEPT
                            ![k].pc = "done",
                            ![k].read = "ok",
                            ![k].closed = @ + 1,
                            ![k].err = out.err,
                            ![k].result = out.result]
    /\ UNCHANGED <<client, opts>>

\* the rest of doRequest closing the body at its end only, so that the
\* return on a failed read leaves it open
ReadAllLeakingOnFailure(k) ==
    /\ calls[k].pc = "reading"
    /\ \/ calls' = [calls EXCEPT
              ![k].pc = "done",
              ![k].read = "failed",
              ![k].err = Wrapped("failed to read response body")]
       \/ /\ ~Interrupted(calls[k])
          /\ LET out == Classify(calls[k].resp.status, calls[k].resp.bytes,
                                 Operation(client, calls[k].inv).resultType,
                                 calls[k].result)
             IN  calls' = [calls EXCEPT
                     ![k].pc = "done",
                     ![k].read = "ok",
                     ![k].closed = @ + 1,
                     ![k].err = out.err,
                     ![k].result = out.result]
    /\ UNCHANGED <<client, opts>>

\* the rest of doRequest with the status interpreted before the body is
\* read: a failure status is reported as an HTTPError though the read
\* failed, with what had been read until then (here nothing)
ReadAllStatusFirst(k) ==
    /\ calls[k].pc = "reading"
    /\ \/ calls' = [calls EXCEPT
              ![k].pc = "done",
              ![k].read = "failed",
              ![k].closed = @ + 1,
              ![k].err = IF IsFailureStatus(calls[k].resp.status)
                         THEN HTTPError(calls[k].resp.status, <<>>)
                         ELSE Wrapped("failed to read response body")]
       \/ /\ ~Interrupted(calls[k])
          /\ LET out == Classify(calls[k].resp.status, calls[k].resp.bytes,
                                 Operation(client, calls[k].inv).resultType,
                                 calls[k].result)
             IN  calls' = [calls EXCEPT
                     ![k].pc = "done",
                     ![k].read = "ok",
                     ![k].closed = @ + 1,
                     ![k].err = out.err,
                     ![k].result = out.result]
    /\ UNCHANGED <<client, opts>>

\* respBody, err := io.ReadAll(resp.Body) and the rest of doRequest, the
\* deferred resp.Body.Close() included
ReadAll(k) ==
    /\ calls[k].pc = "reading"
    /\ \/ calls' = [calls EXCEPT
              ![k].pc = "done",
              ![k].read = "failed",
              ![k].closed = @ + 1,
              ![k].err = Wrapped("failed to read response body")]
       \/ /\ ~Interrupted(calls[k])
          /\ LET out == Classify(calls[k].resp.status, calls[k].resp.bytes,
                                 Operation(client, calls[k].inv).resultType,
                                 calls[k].result)
             IN  calls' = [calls EXCEPT
                     ![k].pc = "done",
                     ![k].read = "ok",
                     ![k].closed = @ + 1,
                     ![k].err = out.err,
                     ![k].result = out.result]
    /\ UNCHANGED <<client, opts>>

\* the caller has taken the operation's return values
Return(k) ==
    /\ calls[k].pc = "done"
    /\ calls' = [calls EXCEPT ![k] = IdleCall]
    /\ UNCHANGED <<client, opts>>

Next ==
    \/ NewClient(CallOptionLists)
    \/ \E k \in MainCallers, inv \in Invocations, ctx \in Contexts :
           Call(k, inv, ctx)
    \/ \E k \in MainCallers : Cancel(k)
    \/ \E k \in MainCallers : TimeoutFires(k)
    \/ \E k \in MainCallers : Do(k)
    \/ \E k \in MainCallers : ReadAll(k)
    \/ \E k \in MainCallers : Return(k)

Spec == Init /\ [][Next]_vars

\* Construction alone, over every option list within the bounds.
NextConfig == NewClient(OptionLists)

SpecConfig == Init /\ [][NextConfig]_vars

(***************************************************************************)
(* The paths of the operations: every operation called with names that     *)
(* hold reserved characters, on clients with and without configured        *)
(* tenant and database, the server answering without a body.               *)
(***************************************************************************)
\* '/', space, '?', '#' and '%' are the reserved characters of the names
PathNames ==
    {<<"c">>, <<"a", "/", "b">>, <<"a", " ", "b">>, <<"?">>, <<"#">>, <<"%">>}

\* tenant and database arguments; the empty string asks for the default
PathScopes == {<<>>, <<"x">>, <<"a", "/", "b">>, <<"a", " ", "b">>}

\* the variadic tenant of CreateDatabase and GetDatabase: not passed, or
\* one string passed
VariadicTenants == {<<>>} \cup {<<t>> : t \in PathScopes}

PathInvocations ==
    {Invocation(op, <<>>, <<>>, <<>>, NoBody) :
        op \in {"Root", "Version", "Heartbeat", "Reset", "PreFlightChecks"}}
    \cup {Invocation("CreateTenant", <<>>, <<>>, <<>>, CreateTenantReq(<<"t">>))}
    \cup {Invocation("GetTenant", n, <<>>, <<>>, NoBody) : n \in PathNames}
    \cup {VariadicInvocation("CreateDatabase", <<>>, ts,
                             CreateDatabaseReq(<<"d">>)) :
            ts \in VariadicTenants}
    \cup {VariadicInvocation("GetDatabase", n, ts, NoBody) :
            n \in PathNames, ts \in VariadicTenants}
    \cup {Invocation(op, <<>>, t, d, NoBody) :
            op \in {"ListCollections", "CountCollections"},
            t \in PathScopes, d \in PathScopes}
    \cup {Invocation("CreateCollection", <<>>, t, d,
                     CreateCollectionReq(<<"c">>)) :
            t \in PathScopes, d \in PathScopes}
    \cup {Invocation(op, n, t, d, NoBody) :
            op \in {"GetCollection", "DeleteCollection"},
            n \in PathNames, t \in PathScopes, d \in PathScopes}
    \cup {Invocation("UpdateCollection", n, <<>>, <<>>, r) :
            n \in PathNames,
            r \in {UpdateCollectionReq(FALSE, <<>>),
                   UpdateCollectionReq(TRUE, <<"n">>)}}
    \cup {Invocation(op, n, <<>>, <<>>, AddEmbeddingReq(<<<<"i">>>>, <<>>)) :
            op \in {"Add", "Upsert"}, n \in PathNames}
    \cup {Invocation("Update", n, <<>>, <<>>,
                     UpdateEmbeddingReq(<<<<"i">>>>, <<<<Float(1)>>>>)) :
            n \in PathNames}
    \cup {Invocation("Get", n, <<>>, <<>>, GetEmbeddingReq(ids)) :
            n \in PathNames, ids \in {<<>>, <<<<"i">>>>}}
    \cup {Invocation("Delete", n, <<>>, <<>>, DeleteEmbeddingReq(<<<<"i">>>>)) :
            n \in PathNames}
    \cup {Invocation("Count", n, <<>>, <<>>, NoBody) : n \in PathNames}
    \cup {Invocation("Query", n, <<>>, <<>>,
                     QueryEmbeddingReq(<<<<Float(1), Float(2)>>>>)) :
            n \in PathNames}

PathOptionLists ==
    {<<>>,
     <<WithTenant(<<"t">>), WithDatabase(<<"d">>)>>,
     <<WithTenant(<<"a", " ", "b">>)>>,
     <<WithTenant(<<>>), WithDatabase(<<>>)>>,
     <<WithBaseURL(<<"a", "/">>)>>,
     <<WithBaseURL(<<"b">>)>>,
     <<WithHTTPClient(NilHTTPClient)>>}

PathStatuses == {200, 404}
PathReplies == {TextReply(<<>>)}

NextPath ==
    \/ NewClient(PathOptionLists)
    \/ \E k \in MainCallers, inv \in PathInvocations : Call(k, inv, "live")
    \/ \E k \in MainCallers : DoWith(k, PathStatuses, PathReplies)
    \/ \E k \in MainCallers : ReadAll(k)
    \/ \E k \in MainCallers : Return(k)

SpecPath == Init /\ [][NextPath]_vars

(***************************************************************************)
(* Overlapping calls: two callers on one client, each in any operation of  *)
(* a small set, their steps interleaved in every order.                    *)
(***************************************************************************)
ConcurrentInvocations ==
    {Invocation("Version", <<>>, <<>>, <<>>, NoBody),
     Invocation("GetTenant", <<"c">>, <<>>, <<>>, NoBody),
     Invocation("Count", <<"%">>, <<>>, <<>>, NoBody),
     Invocation("Add", <<"c">>, <<>>, <<>>,
                AddEmbeddingReq(<<<<"i">>>>, <<<<Float(1), NaN>>>>))}

ConcurrentContexts == {"live", "cancelled"}

ConcurrentOptionLists == {<<>>, <<WithHTTPClient(NilHTTPClient)>>}

ConcurrentStatuses == {200, 404}
ConcurrentReplies ==
    {JSONReply(v, Encode(v)) :
        v \in {JStr(VersionText), JObj(<< <<NameKey, JStr(<<"t">>)>> >>)}}
    \cup {TextReply(NotFoundText)}

NextConcurrent ==
    \/ NewClient(ConcurrentOptionLists)
    \/ \E k \in Callers, inv \in ConcurrentInvocations,
          ctx \in ConcurrentContexts : Call(k, inv, ctx)
    \/ \E k \in Callers : Cancel(k)
    \/ \E k \in Callers : TimeoutFires(k)
    \/ \E k \in Callers :
           DoWith(k, ConcurrentStatuses, ConcurrentReplies)
    \/ \E k \in Callers : ReadAll(k)
    \/ \E k \in Callers : Return(k)

SpecConcurrent == Init /\ [][NextConcurrent]_vars

(***************************************************************************)
(* Resolving again: two callers in the operations that take tenant and     *)
(* database, one after the other or overlapping, on one client.            *)
(***************************************************************************)
ResolveInvocations ==
    {Invocation("ListCollections", <<>>, t, d, NoBody) :
        t \in {<<>>, <<"x">>}, d \in {<<>>, <<"x">>}}
    \cup {Invocation("GetCollection", <<"c">>, t, d, NoBody) :
            t \in {<<>>, <<"a", " ", "b">>}, d \in {<<>>, <<"x">>}}
    \cup {VariadicInvocation("GetDatabase", <<"c">>, ts, NoBody) :
            ts \in {<<>>, << <<"x">> >>}}

ResolveOptionLists ==
    {<<>>,
     <<WithTenant(<<"t">>), WithDatabase(<<"d">>)>>,
     <<WithHTTPClient(NilHTTPClient)>>}

NextResolve ==
    \/ NewClient(ResolveOptionLists)
    \/ \E k \in Callers, inv \in ResolveInvocations : Call(k, inv, "live")
    \/ \E k \in Callers : DoWith(k, PathStatuses, PathReplies)
    \/ \E k \in Callers : ReadAll(k)
    \/ \E k \in Callers : Return(k)

SpecResolve == Init /\ [][NextResolve]_vars

(***************************************************************************)
(* What the properties below speak of.                                     *)
(***************************************************************************)
\* the result type of the operation caller k is in
ResultTypeOf(k) == Operation(client, calls[k].inv).resultType

\* caller k's doRequest has returned after reading the whole response body
Answered(k) == calls[k].pc = "done" /\ calls[k].read = "ok"

Status2xx(k) == calls[k].resp.status >= 200 /\ calls[k].resp.status < 300

(***************************************************************************)
(* C1: a response whose status is below 200 or at least 300, and whose     *)
(* body was read, makes doRequest return an *HTTPError carrying exactly    *)
(* that status and, as its Message, exactly the bytes of the body.         *)
(***************************************************************************)
C1_APIErrorCarriesStatusAndBody ==
    \A k \in Callers :
        (Answered(k) /\ ~Status2xx(k)) =>
            /\ IsHTTPError(calls[k].err)
            /\ calls[k].err.StatusCode = calls[k].resp.status
            /\ calls[k].err.Message = calls[k].resp.bytes

\* a 404 answering "Collection not found" has come back as that HTTPError
C1_Witness ==
    \E k \in Callers :
        /\ Answered(k)
        /\ calls[k].resp.status = 404
        /\ calls[k].resp.bytes = NotFoundText
        /\ calls[k].err = HTTPError(404, NotFoundText)

(***************************************************************************)
(* C2: when the server answers 2xx with the JSON encoding of a value of    *)
(* the result type, doRequest returns nil and the result target holds a    *)
(* value structurally equal to the JSON value sent (the JSON string        *)
(* "0.4.24" answered to Version comes back as the string 0.4.24).          *)
(***************************************************************************)
\* the JSON value of a Go value of a result type, by the type's tags
GoToJSON(T, x) ==
    CASE T = "string" -> JStr(x)
      [] T = "int" -> JNum(x)
      [] T = "bool" -> JBool(x)
      [] T = "Tenant" -> JObj(<< <<<<"n", "a", "m", "e">>, JStr(x.Name)>> >>)

\* v is the JSON value of some Go value of the result type
HasShape(v, T) ==
    CASE T = "string" -> v.t = "str"
      [] T = "int" -> v.t = "num"
      [] T = "bool" -> v.t = "bool"
      [] T = "Tenant" ->
           /\ v.t = "obj"
           /\ Len(v.m) = 1
           /\ v.m[1][1] = <<"n", "a", "m", "e">>
           /\ v.m[1][2].t = "str"
      [] T = "none" -> FALSE

C2_DecodesWhatWasSent ==
    \A k \in Callers :
        (/\ Answered(k)
         /\ Status2xx(k)
         /\ calls[k].resp.isJSON
         /\ HasShape(calls[k].resp.sent, ResultTypeOf(k))) =>
            /\ calls[k].err = NoError
            /\ GoToJSON(ResultTypeOf(k), calls[k].result) = calls[k].resp.sent

\* Version has returned 0.4.24 from a 200 carrying the JSON string "0.4.24"
C2_Witness ==
    \E k \in Callers :
        /\ Answered(k)
        /\ calls[k].inv.op = "Version"
        /\ calls[k].resp.status = 200
        /\ calls[k].resp.sent = JStr(<<"0", ".", "4", ".", "2", "4">>)
        /\ calls[k].resp.bytes =
               <<"\"", "0", ".", "4", ".", "2", "4", "\"", "\n">>
        /\ calls[k].result = <<"0", ".", "4", ".", "2", "4">>
        /\ calls[k].err = NoError

(***************************************************************************)
(* C3: a status from 200 to 299 never comes back as an *HTTPError, and an  *)
(* operation that passes no result target returns nil on any such status,  *)
(* whatever the body holds; a status outside that range is never a         *)
(* success.                                                                *)
(***************************************************************************)
C3_SuccessIs2xx ==
    \A k \in Callers :
        Answered(k) =>
            /\ Status2xx(k) => ~IsHTTPError(calls[k].err)
            /\ (Status2xx(k) /\ ResultTypeOf(k) = "none") =>
                   calls[k].err = NoError
            /\ calls[k].err = NoError => Status2xx(k)

\* Add has returned nil on a 201 whose body is no JSON document
C3_Witness ==
    \E k \in Callers :
        /\ Answered(k)
        /\ calls[k].inv.op = "Add"
        /\ calls[k].resp.status = 201
        /\ ~calls[k].resp.isJSON
        /\ calls[k].resp.bytes # <<>>
        /\ calls[k].err = NoError

(***************************************************************************)
(* C4: on a 2xx status with an empty body and a result target present,     *)
(* nothing is decoded: the target keeps its zero value and doRequest       *)
(* returns nil.                                                            *)
(***************************************************************************)
C4_EmptyBodySkipsDecoding ==
    \A k \in Callers :
        (/\ Answered(k)
         /\ Status2xx(k)
         /\ ResultTypeOf(k) # "none"
         /\ calls[k].resp.bytes = <<>>) =>
            /\ calls[k].err = NoError
            /\ calls[k].result = ZeroValue(ResultTypeOf(k))

\* GetTenant has returned a zero Tenant and nil from a 200 without a body
C4_Witness ==
    \E k \in Callers :
        /\ Answered(k)
        /\ calls[k].inv.op = "GetTenant"
        /\ calls[k].resp.status = 200
        /\ calls[k].resp.bytes = <<>>
        /\ calls[k].result = [Name |-> <<>>]
        /\ calls[k].err = NoError

(***************************************************************************)
(* C5: on a 2xx status, a non-empty body that cannot be decoded into the   *)
(* result target (no JSON document, or a JSON value of another type than   *)
(* the target's) makes doRequest return an error that is not an            *)
(* *HTTPError.                                                             *)
(***************************************************************************)
JSONKindOf(T) ==
    CASE T = "string" -> "str"
      [] T = "int" -> "num"
      [] T = "bool" -> "bool"
      [] T = "Tenant" -> "obj"

\* the body is no JSON document, or its value has another type than the
\* target (or than the target's field) and is not null
Undecodable(resp, T) ==
    \/ ~resp.isJSON
    \/ resp.sent.t \notin {JSONKindOf(T), "null"}
    \/ /\ T = "Tenant"
       /\ resp.sent.t = "obj"
       /\ \E i \in 1..Len(resp.sent.m) :
              /\ resp.sent.m[i][1] \in {<<"n", "a", "m", "e">>,
                                         <<"N", "a", "m", "e">>}
              /\ resp.sent.m[i][2].t \notin {"str", "null"}

C5_DecodeFailureIsLocal ==
    \A k \in Callers :
        (/\ Answered(k)
         /\ Status2xx(k)
         /\ ResultTypeOf(k) # "none"
         /\ calls[k].resp.bytes # <<>>
         /\ Undecodable(calls[k].resp, ResultTypeOf(k))) =>
            /\ calls[k].err # NoError
            /\ ~IsHTTPError(calls[k].err)

\* Count has returned a non-HTTPError error from a 200 carrying a JSON
\* string
C5_Witness ==
    \E k \in Callers :
        /\ Answered(k)
        /\ calls[k].inv.op = "Count"
        /\ calls[k].resp.status = 200
        /\ calls[k].resp.isJSON
        /\ calls[k].resp.sent.t = "str"
        /\ calls[k].err = Wrapped("failed to unmarshal response")

(***************************************************************************)
(* C6, as claimed: every call of doRequest that has returned has invoked   *)
(* the transport's Do exactly once.                                        *)
(***************************************************************************)
C6_ExactlyOneRoundTrip ==
    \A k \in Callers : calls[k].pc = "done" => calls[k].doCount = 1

\* the body of caller k's operation serializes and its wire request can be
\* constructed
Buildable(k) ==
    LET args == Operation(client, calls[k].inv)
    IN  /\ args.body.type = "AddEmbedding" => ~HasNaN(args.body.Embeddings)
        /\ calls[k].ctx # "nil"
        /\ URLParses(client.baseURL \o args.path)

(***************************************************************************)
(* C6, amended: a call of doRequest invokes the transport's Do at most     *)
(* once: exactly once when the body serializes and the wire request is     *)
(* constructed, and not at all when either fails; a failed exchange is     *)
(* returned at once and never tried again.                                 *)
(***************************************************************************)
C6_AtMostOneRoundTrip ==
    \A k \in Callers :
        /\ calls[k].doCount <= 1
        /\ calls[k].pc \in {"reading", "panicked"} => calls[k].doCount = 1
        /\ calls[k].pc = "done" =>
               calls[k].doCount = IF Buildable(k) THEN 1 ELSE 0

\* an exchange has failed and the call has returned after its one Do
C6_Witness ==
    \E k \in Callers :
        /\ calls[k].pc = "done"
        /\ calls[k].err = Wrapped("failed to perform request")
        /\ calls[k].doCount = 1

(***************************************************************************)
(* C7: a call whose context was cancelled, or whose transport timeout      *)
(* fired, before the exchange or the reading of the body had completed     *)
(* returns an error that is not an *HTTPError, leaves the result target at *)
(* its zero value, and leaves the Client as NewClient built it.            *)
(***************************************************************************)
C7_InterruptedCallFails ==
    \A k \in Callers :
        (calls[k].pc = "done" /\ Interrupted(calls[k])) =>
            /\ calls[k].err # NoError
            /\ ~IsHTTPError(calls[k].err)
            /\ calls[k].result = ZeroValue(ResultTypeOf(k))
            /\ client = ApplyOptions(DefaultClient, opts)

\* a call cancelled after the response arrived has returned the error of
\* the body read
C7_Witness ==
    \E k \in Callers :
        /\ calls[k].pc = "done"
        /\ calls[k].ctx = "cancelled"
        /\ calls[k].resp.status = 200
        /\ calls[k].resp.bytes # <<>>
        /\ calls[k].err = Wrapped("failed to read response body")
        /\ calls[k].result = ZeroValue(ResultTypeOf(k))

(***************************************************************************)
(* C8, as claimed: whatever options NewClient was given, the stored base   *)
(* address does not end with a slash.                                      *)
(***************************************************************************)
C8_NoTrailingSlash ==
    client.constructed =>
        (client.baseURL = <<>> \/ client.baseURL[Len(client.baseURL)] # "/")

(***************************************************************************)
(* C9: NewClient applies the options in the order given: each field holds  *)
(* what the last option naming it stores, a field no option names holds    *)
(* its default, and exchanging two neighbouring options that name          *)
(* different fields builds the same client.                                *)
(***************************************************************************)
\* the positions of the options that name field f
Naming(f) == {i \in 1..Len(opts) : opts[i].field = f}

Last(S) == CHOOSE i \in S : \A j \in S : j <= i

Swapped(os, i) == [os EXCEPT ![i] = os[i + 1], ![i + 1] = os[i]]

C9_OptionsInOrder ==
    client.constructed =>
        /\ \A f \in Fields :
               client[f] = IF Naming(f) = {} THEN DefaultClient[f]
                           ELSE OptionValue(opts[Last(Naming(f))])
        /\ \A i \in 1..(Len(opts) - 1) :
               opts[i].field # opts[i + 1].field =>
                   ApplyOptions(DefaultClient, Swapped(opts, i)) = client

\* two different tenants were given and the later one is stored
C9_Witness ==
    /\ client.constructed
    /\ Len(opts) = 2
    /\ opts[1].field = "tenant"
    /\ opts[2].field = "tenant"
    /\ opts[1].arg # opts[2].arg
    /\ client.tenant = opts[2].arg

(***************************************************************************)
(* C10: NewClient without options returns a client with base address       *)
(* http://localhost:8000, tenant default_tenant, database default_database *)
(* and a transport whose timeout is 30 seconds, and a field no option      *)
(* names keeps that default.                                               *)
(***************************************************************************)
C10_Defaults ==
    client.constructed =>
        /\ Naming("baseURL") = {} =>
               client.baseURL =
                   <<"h", "t", "t", "p", ":", "/", "/", "l", "o", "c", "a",
                     "l", "h", "o", "s", "t", ":", "8", "0", "0", "0">>
        /\ Naming("tenant") = {} =>
               client.tenant =
                   <<"d", "e", "f", "a", "u", "l", "t", "_",
                     "t", "e", "n", "a", "n", "t">>
        /\ Naming("database") = {} =>
               client.database =
                   <<"d", "e", "f", "a", "u", "l", "t", "_",
                     "d", "a", "t", "a", "b", "a", "s", "e">>
        /\ Naming("httpClient") = {} =>
               /\ ~client.httpClient.nil
               /\ client.httpClient.timeout = 30

\* the client built from no option at all
C10_Witness ==
    /\ client.constructed
    /\ opts = <<>>
    /\ client.tenant = DefaultTenant
    /\ client.httpClient.timeout = DefaultTimeoutSeconds

(***************************************************************************)
(* The paths the operations have resolved.                                 *)
(***************************************************************************)
\* the pieces of s between its slashes, as strings.Split(s, "/") gives them
RECURSIVE SplitFrom(_, _, _)
SplitFrom(s, i, piece) ==
    IF i > Len(s) THEN <<piece>>
    ELSE IF s[i] = "/" THEN <<piece>> \o SplitFrom(s, i + 1, <<>>)
    ELSE SplitFrom(s, i + 1, Append(piece, s[i]))
Split(s) == SplitFrom(s, 1, <<>>)

\* caller k is in an operation, its path resolved
InOperation(k) == calls[k].pc # "idle"

\* the path caller k's operation handed to doRequest, and its pieces: the
\* first piece is the empty one before the leading slash
PathOf(k) == calls[k].args.path
PiecesOf(k) == Split(PathOf(k))

\* the operations that take tenant and database strings, and those that
\* take the variadic tenant
ScopedOps ==
    {"ListCollections", "CountCollections", "CreateCollection",
     "GetCollection", "DeleteCollection"}
VariadicOps == {"CreateDatabase", "GetDatabase"}

\* in "/api/v2/tenants/{tenant}/databases/{database}..." the tenant is the
\* fifth piece and the database the seventh
TenantSlot(k) == PiecesOf(k)[5]
DatabaseSlot(k) == PiecesOf(k)[7]

(***************************************************************************)
(* C11, as claimed: an operation that accepts tenant/database strings and  *)
(* is passed the empty string for one of them (CreateDatabase and          *)
(* GetDatabase: for their optional tenant) resolves a path that has the    *)
(* client's configured default, escaped, in that slot, not an empty piece. *)
(***************************************************************************)
C11_EmptyMeansDefault ==
    \A k \in Callers :
        InOperation(k) =>
            /\ (/\ calls[k].inv.op \in ScopedOps
                /\ calls[k].inv.tenant = <<>>) =>
                   /\ TenantSlot(k) = QueryEscape(client.tenant)
                   /\ TenantSlot(k) # <<>>
            /\ (/\ calls[k].inv.op \in ScopedOps
                /\ calls[k].inv.database = <<>>) =>
                   /\ DatabaseSlot(k) = QueryEscape(client.database)
                   /\ DatabaseSlot(k) # <<>>
            /\ (/\ calls[k].inv.op \in VariadicOps
                /\ calls[k].inv.tenantArgs = << <<>> >>) =>
                   /\ TenantSlot(k) = QueryEscape(client.tenant)
                   /\ TenantSlot(k) # <<>>

(***************************************************************************)
(* The v2 endpoint table: for each operation its method and its path       *)
(* template, a sequence of literal pieces and of dynamic slots.  In a slot *)
(* "name" stands for the operation's name or collection id argument.       *)
(***************************************************************************)
Lit(s) == [dyn |-> "", lit |-> s]
Dyn(what) == [dyn |-> what, lit |-> <<>>]

Lit_add == Lit(<<"a", "d", "d">>)
Lit_api == Lit(<<"a", "p", "i">>)
Lit_collections ==
    Lit(<<"c", "o", "l", "l", "e", "c", "t", "i", "o", "n", "s">>)
Lit_collections_count ==
    Lit(<<"c", "o", "l", "l", "e", "c", "t", "i", "o", "n", "s", "_",
          "c", "o", "u", "n", "t">>)
Lit_count == Lit(<<"c", "o", "u", "n", "t">>)
Lit_databases == Lit(<<"d", "a", "t", "a", "b", "a", "s", "e", "s">>)
Lit_delete == Lit(<<"d", "e", "l", "e", "t", "e">>)
Lit_get == Lit(<<"g", "e", "t">>)
Lit_heartbeat == Lit(<<"h", "e", "a", "r", "t", "b", "e", "a", "t">>)
Lit_pre_flight_checks ==
    Lit(<<"p", "r", "e", "-", "f", "l", "i", "g", "h", "t", "-",
          "c", "h", "e", "c", "k", "s">>)
Lit_query == Lit(<<"q", "u", "e", "r", "y">>)
Lit_reset == Lit(<<"r", "e", "s", "e", "t">>)
Lit_tenants == Lit(<<"t", "e", "n", "a", "n", "t", "s">>)
Lit_update == Lit(<<"u", "p", "d", "a", "t", "e">>)
Lit_upsert == Lit(<<"u", "p", "s", "e", "r", "t">>)
Lit_v2 == Lit(<<"v", "2">>)
Lit_version == Lit(<<"v", "e", "r", "s", "i", "o", "n">>)

Endpoint(method, template) == [method |-> method, template |-> template]

EndpointsV2(op) ==
    CASE op = "Root" ->
           Endpoint("GET", <<Lit_api, Lit_v2>>)
      [] op = "Version" ->
           Endpoint("GET", <<Lit_api, Lit_v2, Lit_version>>)
      [] op = "Heartbeat" ->
           Endpoint("GET", <<Lit_api, Lit_v2, Lit_heartbeat>>)
      [] op = "Reset" ->
           Endpoint("POST", <<Lit_api, Lit_v2, Lit_reset>>)
      [] op = "PreFlightChecks" ->
           Endpoint("GET", <<Lit_api, Lit_v2, Lit_pre_flight_checks>>)
      [] op = "CreateTenant" ->
           Endpoint("POST", <<Lit_api, Lit_v2, Lit_tenants>>)
      [] op = "GetTenant" ->
           Endpoint("GET", <<Lit_api, Lit_v2, Lit_tenants, Dyn("name")>>)
      [] op = "CreateDatabase" ->
           Endpoint("POST", <<Lit_api, Lit_v2,
                             Lit_tenants, Dyn("tenant"), Lit_databases>>)
      [] op = "GetDatabase" ->
           Endpoint("GET", <<Lit_api, Lit_v2, Lit_tenants,
                             Dyn("tenant"), Lit_databases, Dyn("name")>>)
      [] op = "ListCollections" ->
           Endpoint("GET", <<Lit_api, Lit_v2, Lit_tenants,
                             Dyn("tenant"), Lit_databases, Dyn("database"), Lit_collections>>)
      [] op = "CountCollections" ->
           Endpoint("GET", <<Lit_api, Lit_v2, Lit_tenants,
                             Dyn("tenant"), Lit_databases, Dyn("database"), Lit_collections_count>>)
      [] op = "CreateCollection" ->
           Endpoint("POST", <<Lit_api, Lit_v2, Lit_tenants,
                             Dyn("tenant"), Lit_databases, Dyn("database"), Lit_collections>>)
      [] op = "GetCollection" ->
           Endpoint("GET", <<Lit_api, Lit_v2, Lit_tenants, Dyn("tenant"),
                             Lit_databases, Dyn("database"), Lit_collections, Dyn("name")>>)
      [] op = "DeleteCollection" ->
           Endpoint("DELETE", <<Lit_api, Lit_v2, Lit_tenants, Dyn("tenant"),
                             Lit_databases, Dyn("database"), Lit_collections, Dyn("name")>>)
      [] op = "UpdateCollection" ->
           Endpoint("PUT", <<Lit_api, Lit_v2, Lit_collections, Dyn("name")>>)
      [] op = "Add" ->
           Endpoint("POST", <<Lit_api, Lit_v2,
                             Lit_collections, Dyn("name"), Lit_add>>)
      [] op = "Update" ->
           Endpoint("POST", <<Lit_api, Lit_v2,
                             Lit_collections, Dyn("name"), Lit_update>>)
      [] op = "Upsert" ->
           Endpoint("POST", <<Lit_api, Lit_v2,
                             Lit_collections, Dyn("name"), Lit_upsert>>)
      [] op = "Get" ->
           Endpoint("POST", <<Lit_api, Lit_v2,
                             Lit_collections, Dyn("name"), Lit_get>>)
      [] op = "Delete" ->
           Endpoint("POST", <<Lit_api, Lit_v2,
                             Lit_collections, Dyn("name"), Lit_delete>>)
      [] op = "Count" ->
           Endpoint("GET", <<Lit_api, Lit_v2,
                             Lit_collections, Dyn("name"), Lit_count>>)
      [] op = "Query" ->
           Endpoint("POST", <<Lit_api, Lit_v2,
                             Lit_collections, Dyn("name"), Lit_query>>)

\* the template of the operation caller k is in, and the pieces of its
\* path after the leading slash
TemplateOf(k) == EndpointsV2(calls[k].inv.op).template
SegmentsOf(k) == Tail(PiecesOf(k))

\* the characters a name must not bring into a path unescaped
ReservedChars == {"/", "?", "#", " ", "%"}

\* the piece holds no reserved character but '%' opening a "%XX" escape
IsEscaped(piece) ==
    /\ \A i \in 1..Len(piece) : piece[i] \notin (ReservedChars \ {"%"})
    /\ URLParses(piece)

(***************************************************************************)
(* C12, as claimed: the path of every operation has exactly the pieces of  *)
(* its template (no '/' of a name cuts a piece in two), and the piece in   *)
(* each dynamic slot (tenant, database, name, collection id) is escaped:   *)
(* it holds no '/', '?', '#' or space, and no '%' but that of an escape.   *)
(***************************************************************************)
C12_DynamicSegmentsEscaped ==
    \A k \in Callers :
        InOperation(k) =>
            /\ Len(SegmentsOf(k)) = Len(TemplateOf(k))
            /\ \A i \in 1..Len(TemplateOf(k)) :
                   TemplateOf(k)[i].dyn # "" => IsEscaped(SegmentsOf(k)[i])

(***************************************************************************)
(* What a URL parser makes of a path.                                      *)
(***************************************************************************)
\* the character of "%XX", for the codes of PercentCode and of the space
CharOfCode(h1, h2) ==
    CASE <<h1, h2>> = <<"2", "F">> -> "/"
      [] <<h1, h2>> = <<"2", "5">> -> "%"
      [] <<h1, h2>> = <<"3", "F">> -> "?"
      [] <<h1, h2>> = <<"2", "3">> -> "#"
      [] <<h1, h2>> = <<"3", "A">> -> ":"
      [] <<h1, h2>> = <<"2", "2">> -> "\""
      [] <<h1, h2>> = <<"0", "A">> -> "\n"
      [] <<h1, h2>> = <<"2", "0">> -> " "
      [] OTHER -> "*"

\* url.PathUnescape: "%XX" is the character it stands for and every other
\* character, '+' too, is itself; s is taken to have passed URLParses
RECURSIVE PathUnescape(_)
PathUnescape(s) ==
    IF s = <<>> THEN <<>>
    ELSE IF Head(s) = "%"
    THEN <<CharOfCode(s[2], s[3])>> \o PathUnescape(SubSeq(s, 4, Len(s)))
    ELSE <<Head(s)>> \o PathUnescape(Tail(s))

\* s up to, not including, its first character of chs
RECURSIVE Before(_, _)
Before(s, chs) ==
    IF s = <<>> \/ Head(s) \in chs THEN <<>>
    ELSE <<Head(s)>> \o Before(Tail(s), chs)

\* url.Parse of a path reference: the fragment starts at the first '#' and
\* the query at the first '?'; what is before them is the path, refused
\* when a '%' opens no escape, and its pieces are unescaped one by one
ParsedSegments(path) ==
    LET raw == Before(Before(path, {"#"}), {"?"})
        pieces == Tail(Split(raw))
    IN  IF ~URLParses(raw) THEN [ok |-> FALSE, segments |-> <<>>]
        ELSE [ok |-> TRUE,
              segments |-> [i \in 1..Len(pieces) |-> PathUnescape(pieces[i])]]

\* the tenant the caller has named, empty when none was named
ExplicitTenant(inv) ==
    IF inv.op \in VariadicOps
    THEN (IF inv.tenantArgs = <<>> THEN <<>> ELSE inv.tenantArgs[1])
    ELSE inv.tenant

\* the value that belongs in a dynamic slot of caller k's path: the name
\* or collection id, or the tenant or database named by the caller and
\* otherwise configured
SlotValue(k, what) ==
    CASE what = "name" -> calls[k].inv.name
      [] what = "tenant" ->
           IF ExplicitTenant(calls[k].inv) # <<>>
           THEN ExplicitTenant(calls[k].inv) ELSE client.tenant
      [] what = "database" ->
           IF calls[k].inv.database # <<>>
           THEN calls[k].inv.database ELSE client.database

HasReserved(s) == \E i \in 1..Len(s) : s[i] \in ReservedChars

(***************************************************************************)
(* C13, as claimed: when the value of a dynamic slot holds a reserved      *)
(* character, a URL parser given the resolved path finds as many segments  *)
(* as the template has, and the segment of that slot, unescaped, is the    *)
(* value.                                                                  *)
(***************************************************************************)
C13_EscapingRoundTrips ==
    \A k \in Callers :
        InOperation(k) =>
            \A i \in 1..Len(TemplateOf(k)) :
                LET what == TemplateOf(k)[i].dyn
                    parsed == ParsedSegments(PathOf(k))
                IN  (what # "" /\ HasReserved(SlotValue(k, what))) =>
                        /\ parsed.ok
                        /\ Len(parsed.segments) = Len(TemplateOf(k))
                        /\ parsed.segments[i] = SlotValue(k, what)

(***************************************************************************)
(* C14, as claimed: on every client NewClient can build, a client given a  *)
(* nil *http.Client included, no operation call ends in a panic: each      *)
(* call that has left doRequest has returned its result and error.         *)
(***************************************************************************)
C14_NoPanic ==
    /\ client.constructed => client = ApplyOptions(DefaultClient, opts)
    /\ \A k \in Callers : calls[k].pc # "panicked"

(***************************************************************************)
(* C15: with two callers' operations overlapping in every interleaving,    *)
(* no step writes a field of the constructed client, a step of one call    *)
(* leaves the other call's request, response, error and result as they     *)
(* were, and what a finished call returns is what its own arguments, the   *)
(* (unchanged) client and the response to its own request determine.       *)
(***************************************************************************)
\* what doRequest returns to caller k, from k's own arguments and what
\* came back for k's own request
OwnOutcome(k) ==
    LET args == Operation(client, calls[k].inv)
        zero == ZeroValue(args.resultType)
        built == BuildRequest(client, calls[k].ctx, args)
    IN  IF built.err # NoError THEN [err |-> built.err, result |-> zero]
        ELSE IF calls[k].read = "none"
        THEN [err |-> Wrapped("failed to perform request"), result |-> zero]
        ELSE IF calls[k].read = "failed"
        THEN [err |-> Wrapped("failed to read response body"),
              result |-> zero]
        ELSE Classify(calls[k].resp.status, calls[k].resp.bytes,
                      args.resultType, zero)

C15_ConcurrentUseIsSafe ==
    /\ [][/\ client.constructed => client' = client
          /\ \E k \in Callers :
                 \A j \in Callers \ {k} : calls'[j] = calls[j]]_vars
    /\ [](\A k \in Callers :
             calls[k].pc = "done" =>
                 /\ calls[k].err = OwnOutcome(k).err
                 /\ calls[k].result = OwnOutcome(k).result)

\* while c1's Version is still being read, answered 200, c2's GetTenant
\* has come back from its own 404 with that HTTPError
C15_Witness ==
    /\ calls["c1"].pc = "reading"
    /\ calls["c1"].inv.op = "Version"
    /\ calls["c1"].resp.status = 200
    /\ calls["c1"].resp.sent = JStr(VersionText)
    /\ calls["c2"].pc = "done"
    /\ calls["c2"].inv.op = "GetTenant"
    /\ calls["c2"].read = "ok"
    /\ calls["c2"].err = HTTPError(404, NotFoundText)

(***************************************************************************)
(* C16: every operation hands doRequest the method of its row of the v2    *)
(* endpoint table and a path that is the row's template, its literal       *)
(* pieces spelled as in the table and its slots filled; the request built  *)
(* from them carries that method and the base address followed by that     *)
(* path.                                                                   *)
(***************************************************************************)
IsPrefix(p, s) == Len(p) <= Len(s) /\ SubSeq(s, 1, Len(p)) = p

\* s is the template t with some string in each of its slots
RECURSIVE Matches(_, _)
Matches(s, t) ==
    IF t = <<>> THEN s = <<>>
    ELSE /\ s # <<>>
         /\ Head(s) = "/"
         /\ IF Head(t).dyn = ""
            THEN /\ IsPrefix(Head(t).lit, Tail(s))
                 /\ Matches(SubSeq(s, Len(Head(t).lit) + 2, Len(s)), Tail(t))
            ELSE \E n \in 1..(Len(s) + 1) :
                     Matches(SubSeq(s, n + 1, Len(s)), Tail(t))

Lit_v1 == Lit(<<"v", "1">>)
Lit_count_collections ==
    Lit(<<"c", "o", "u", "n", "t", "_",
          "c", "o", "l", "l", "e", "c", "t", "i", "o", "n", "s">>)

EndpointsV1(op) ==
    CASE op = "Version" -> Endpoint("GET", <<Lit_api, Lit_v1, Lit_version>>)
      [] op = "Heartbeat" ->
           Endpoint("GET", <<Lit_api, Lit_v1, Lit_heartbeat>>)
      [] op = "Reset" -> Endpoint("POST", <<Lit_api, Lit_v1, Lit_reset>>)
      [] op = "CreateTenant" ->
           Endpoint("POST", <<Lit_api, Lit_v1, Lit_tenants>>)
      [] op = "GetTenant" ->
           Endpoint("GET", <<Lit_api, Lit_v1, Lit_tenants, Dyn("name")>>)
      [] op = "CreateDatabase" ->
           Endpoint("POST", <<Lit_api, Lit_v1, Lit_databases>>)
      [] op = "GetDatabase" ->
           Endpoint("GET", <<Lit_api, Lit_v1, Lit_databases, Dyn("name")>>)
      [] op = "ListCollections" ->
           Endpoint("GET", <<Lit_api, Lit_v1, Lit_collections>>)
      [] op = "CountCollections" ->
           Endpoint("GET", <<Lit_api, Lit_v1, Lit_count_collections>>)
      [] op = "CreateCollection" ->
           Endpoint("POST", <<Lit_api, Lit_v1, Lit_collections>>)
      [] op = "GetCollection" ->
           Endpoint("GET", <<Lit_api, Lit_v1, Lit_collections, Dyn("name")>>)
      [] op = "DeleteCollection" ->
           Endpoint("DELETE",
                    <<Lit_api, Lit_v1, Lit_collections, Dyn("name")>>)
      [] op = "UpdateCollection" ->
           Endpoint("PUT", <<Lit_api, Lit_v1, Lit_collections, Dyn("name")>>)
      [] op = "Add" ->
           Endpoint("POST",
                    <<Lit_api, Lit_v1, Lit_collections, Dyn("name"), Lit_add>>)
      [] op = "Count" ->
           Endpoint("GET",
                    <<Lit_api, Lit_v1, Lit_collections, Dyn("name"),
                      Lit_count>>)
      [] op = "Query" ->
           Endpoint("POST",
                    <<Lit_api, Lit_v1, Lit_collections, Dyn("name"),
                      Lit_query>>)

\* the operations the tests call that take no tenant or database
UnscopedTestedOps ==
    {"Version", "Heartbeat", "Reset", "CreateTenant", "GetTenant",
     "UpdateCollection", "Add", "Count", "Query"}

\* what follows the first '?' of s, empty when there is none
QueryOf(s) ==
    IF Len(Before(s, {"?"})) = Len(s) THEN <<>>
    ELSE SubSeq(s, Len(Before(s, {"?"})) + 2, Len(s))

TenantParam == <<"t", "e", "n", "a", "n", "t", "=">>

\* the caller has named neither tenant nor database
DefaultScoping(inv) ==
    inv.tenant = <<>> /\ inv.database = <<>> /\ inv.tenantArgs = <<>>

(***************************************************************************)
(* C17, as claimed: Version, Heartbeat, Reset, CreateTenant, GetTenant,    *)
(* UpdateCollection, Add, Count and Query send the method the tests check  *)
(* to the path the tests check, which is under /api/v1.                    *)
(***************************************************************************)
C17_UnscopedOpsSendV1 ==
    \A k \in Callers :
        (InOperation(k) /\ calls[k].inv.op \in UnscopedTestedOps) =>
            /\ calls[k].args.method = EndpointsV1(calls[k].inv.op).method
            /\ Matches(PathOf(k), EndpointsV1(calls[k].inv.op).template)

(***************************************************************************)
(* C18, as claimed: the operations that take tenant and database, called   *)
(* with neither named, send the method the tests check to the un-nested    *)
(* v1 path the tests check, CreateDatabase with the client's tenant as the *)
(* query parameter "tenant".                                               *)
(***************************************************************************)
C18_ScopedOpsSendUnnestedV1 ==
    \A k \in Callers :
        (/\ InOperation(k)
         /\ calls[k].inv.op \in ScopedOps \cup VariadicOps
         /\ DefaultScoping(calls[k].inv)) =>
            /\ calls[k].args.method = EndpointsV1(calls[k].inv.op).method
            /\ Matches(Before(PathOf(k), {"?"}),
                       EndpointsV1(calls[k].inv.op).template)
            /\ calls[k].inv.op = "CreateDatabase" =>
                   QueryOf(PathOf(k)) = TenantParam \o QueryEscape(client.tenant)

(***************************************************************************)
(* C19: an operation that accepts tenant and database puts a non-empty     *)
(* tenant it is passed, escaped, in the tenant slot of its path, and a     *)
(* non-empty database, escaped, in the database slot, in place of the      *)
(* client's configured value; each slot on its own: with one of the two    *)
(* passed and the other empty, the other slot holds the configured value.  *)
(***************************************************************************)
C19_ExplicitScopeOverridesDefault ==
    \A k \in Callers :
        (InOperation(k) /\ calls[k].inv.op \in ScopedOps \cup VariadicOps) =>
            LET inv == calls[k].inv
                tenant == ExplicitTenant(inv)
            IN  /\ tenant # <<>> =>
                       /\ TenantSlot(k) = QueryEscape(tenant)
                       /\ tenant # client.tenant =>
                              TenantSlot(k) # QueryEscape(client.tenant)
                /\ (inv.op \in ScopedOps /\ inv.database # <<>>) =>
                       /\ DatabaseSlot(k) = QueryEscape(inv.database)
                       /\ inv.database # client.database =>
                              DatabaseSlot(k) # QueryEscape(client.database)
                /\ (inv.op \in ScopedOps /\ tenant # <<>>
                    /\ inv.database = <<>>) =>
                       DatabaseSlot(k) = QueryEscape(client.database)
                /\ (inv.op \in ScopedOps /\ tenant = <<>>
                    /\ inv.database # <<>>) =>
                       TenantSlot(k) = QueryEscape(client.tenant)

\* on a client configured with tenant "t" and database "d",
\* ListCollections(ctx, "a/b", "") has resolved
\* /api/v2/tenants/a%2Fb/databases/d/collections
C19_Witness ==
    /\ client.constructed
    /\ client.tenant = <<"t">>
    /\ client.database = <<"d">>
    /\ calls["c1"].pc = "done"
    /\ calls["c1"].read = "ok"
    /\ calls["c1"].inv.op = "ListCollections"
    /\ calls["c1"].inv.tenant = <<"a", "/", "b">>
    /\ calls["c1"].inv.database = <<>>
    /\ PathOf("c1") =
           JoinPath(<<SegApi, SegV2, SegTenants, <<"a", "%", "2", "F", "b">>,
                      SegDatabases, <<"d">>, SegCollections>>)

(***************************************************************************)
(* C20: a request that was built carries "Content-Type: application/json"  *)
(* exactly when the operation passed doRequest a body, and then its body   *)
(* is a JSON document of the request value; the operations that pass nil   *)
(* (those sent with GET, DeleteCollection and Reset) send neither header   *)
(* nor body, and every other operation passes its request value.           *)
(***************************************************************************)
NilBodyOps ==
    {"Root", "Version", "Heartbeat", "PreFlightChecks", "GetTenant",
     "GetDatabase", "ListCollections", "CountCollections", "GetCollection",
     "Count", "DeleteCollection", "Reset"}

C20_ContentTypeIffBody ==
    \A k \in Callers :
        (InOperation(k) /\ calls[k].req # NoRequest) =>
            LET req == calls[k].req
                arg == calls[k].args.body
            IN  /\ req.contentType <=> arg # NoBody
                /\ arg # NoBody =>
                       /\ ParseDocument(req.body).ok
                       /\ ParseDocument(req.body).val = ReqToJSON(arg)
                /\ arg = NoBody => req.body = <<>>
                /\ arg = NoBody <=> calls[k].inv.op \in NilBodyOps
                /\ arg # NoBody => arg = calls[k].inv.req
                /\ calls[k].inv.op \in NilBodyOps =>
                       (calls[k].args.method = "GET"
                        \/ calls[k].inv.op \in {"DeleteCollection", "Reset"})

\* CreateTenant{Name: "t"} is being sent with the JSON content type and
\* the body {"name":"t"}
C20_Witness ==
    /\ calls["c1"].pc = "sending"
    /\ calls["c1"].inv.op = "CreateTenant"
    /\ calls["c1"].req.method = "POST"
    /\ calls["c1"].req.contentType
    /\ calls["c1"].req.body =
           <<"{", "\"", "n", "a", "m", "e", "\"", ":", "\"", "t", "\"", "}">>

(***************************************************************************)
(* C21: the body is read before the status is looked at: a call whose      *)
(* read of the response body failed returns the wrapped error "failed to   *)
(* read response body", no *HTTPError, whatever the status was; and every  *)
(* *HTTPError returned comes from a body read to its end and carries the   *)
(* whole of it.                                                            *)
(***************************************************************************)
C21_BodyReadBeforeStatus ==
    \A k \in Callers :
        calls[k].pc = "done" =>
            /\ calls[k].read = "failed" =>
                   /\ calls[k].err = Wrapped("failed to read response body")
                   /\ ~IsHTTPError(calls[k].err)
            /\ IsHTTPError(calls[k].err) =>
                   /\ calls[k].read = "ok"
                   /\ calls[k].err.Message = calls[k].resp.bytes

\* a 404 answering "Collection not found" whose body could not be read
\* has come back as the read failure
C21_Witness ==
    /\ calls["c1"].pc = "done"
    /\ calls["c1"].resp.status = 404
    /\ calls["c1"].resp.bytes = NotFoundText
    /\ calls["c1"].read = "failed"
    /\ calls["c1"].err = Wrapped("failed to read response body")

(***************************************************************************)
(* C22: a call whose request value holds a float JSON cannot express       *)
(* returns the wrapped error "failed to marshal request body", and a call  *)
(* with a nil context or with a URL that does not parse returns the        *)
(* wrapped error "failed to create request"; either returns before the     *)
(* transport is called: no round trip, no response, no request, and the    *)
(* result target still holds its zero value.                               *)
(***************************************************************************)
\* json.Marshal refuses the request value: a NaN among its floats
Unserializable(body) ==
    \/ body.type \in {"AddEmbedding", "UpdateEmbedding"}
       /\ HasNaN(body.Embeddings)
    \/ body.type = "QueryEmbedding" /\ HasNaN(body.QueryEmbeddings)

\* caller k's doRequest has returned err without reaching the transport
ReturnedBeforeTransport(k, err) ==
    /\ calls[k].pc = "done"
    /\ calls[k].err = err
    /\ ~IsHTTPError(calls[k].err)
    /\ calls[k].doCount = 0
    /\ calls[k].req = NoRequest
    /\ calls[k].resp = NoResponse
    /\ calls[k].read = "none"
    /\ calls[k].result = ZeroValue(calls[k].args.resultType)

C22_LocalFailureBeforeTransport ==
    \A k \in Callers :
        InOperation(k) =>
            /\ Unserializable(calls[k].inv.req) =>
                   ReturnedBeforeTransport(
                       k, Wrapped("failed to marshal request body"))
            /\ (/\ ~Unserializable(calls[k].inv.req)
                /\ \/ calls[k].ctx = "nil"
                   \/ ~URLParses(client.baseURL \o PathOf(k))) =>
                   ReturnedBeforeTransport(
                       k, Wrapped("failed to create request"))

\* Add with a NaN embedding and a nil context has returned the marshal
\* failure without a round trip
C22_Witness ==
    /\ calls["c1"].pc = "done"
    /\ calls["c1"].inv.op = "Add"
    /\ HasNaN(calls["c1"].inv.req.Embeddings)
    /\ calls["c1"].ctx = "nil"
    /\ calls["c1"].err = Wrapped("failed to marshal request body")
    /\ calls["c1"].doCount = 0

(***************************************************************************)
(* C23: two calls of the same operation with the same name, tenant and     *)
(* database arguments on one client, whether one follows the other or      *)
(* they overlap, resolve the same path character by character and send to  *)
(* the same URL; and no step of an operation changes the client's tenant,  *)
(* database or base address.                                               *)
(***************************************************************************)
SameArguments(j, k) ==
    /\ calls[j].inv.op = calls[k].inv.op
    /\ calls[j].inv.name = calls[k].inv.name
    /\ calls[j].inv.tenant = calls[k].inv.tenant
    /\ calls[j].inv.database = calls[k].inv.database
    /\ calls[j].inv.tenantArgs = calls[k].inv.tenantArgs

C23_ResolutionIsDeterministic ==
    /\ [][client.constructed =>
              /\ client'.tenant = client.tenant
              /\ client'.database = client.database
              /\ client'.baseURL = client.baseURL]_vars
    /\ [](\A j, k \in Callers :
             (InOperation(j) /\ InOperation(k) /\ SameArguments(j, k)) =>
                 /\ PathOf(j) = PathOf(k)
                 /\ calls[j].req.url = calls[k].req.url)

\* c1's GetCollection("c", "a b", "") has returned and c2's, called with
\* the same arguments, is being sent to the same path
C23_Witness ==
    /\ calls["c1"].pc = "done"
    /\ calls["c1"].read = "ok"
    /\ calls["c2"].pc = "sending"
    /\ calls["c1"].inv.op = "GetCollection"
    /\ calls["c1"].inv.tenant = <<"a", " ", "b">>
    /\ calls["c1"].inv.database = <<>>
    /\ SameArguments("c1", "c2")
    /\ PathOf("c2") =
           JoinPath(<<SegApi, SegV2, SegTenants, <<"a", "+", "b">>,
                      SegDatabases, DefaultDatabase, SegCollections,
                      <<"c">>>>)

(***************************************************************************)
(* C24: when the tenant (or database) is named neither by the caller nor   *)
(* by the client, as on a client built with WithTenant(""), the operation  *)
(* leaves that slot of its path empty and goes on as any other call: it    *)
(* fails locally only where the same call on a client with tenant and      *)
(* database configured fails too, and otherwise calls the transport once   *)
(* and returns what the response it got classifies to.                     *)
(***************************************************************************)
DegenerateTenant(k) ==
    /\ calls[k].inv.op \in ScopedOps \cup VariadicOps
    /\ ExplicitTenant(calls[k].inv) = <<>>
    /\ client.tenant = <<>>
DegenerateDatabase(k) ==
    /\ calls[k].inv.op \in ScopedOps
    /\ calls[k].inv.database = <<>>
    /\ client.database = <<>>

\* the same call fails before the transport on a client that differs
\* only in having tenant and database configured
FailsLocallyWhenScoped(k) ==
    LET scoped == [client EXCEPT !.tenant = <<"t">>, !.database = <<"d">>]
    IN  BuildRequest(scoped, calls[k].ctx,
                     Operation(scoped, calls[k].inv)).err # NoError

C24_DegenerateScopeIsDispatched ==
    \A k \in Callers :
        (InOperation(k) /\ (DegenerateTenant(k) \/ DegenerateDatabase(k))) =>
            /\ DegenerateTenant(k) => TenantSlot(k) = <<>>
            /\ DegenerateDatabase(k) => DatabaseSlot(k) = <<>>
            /\ calls[k].req = NoRequest <=> FailsLocallyWhenScoped(k)
            /\ (calls[k].pc = "done" /\ calls[k].req # NoRequest) =>
                   calls[k].doCount = 1
            /\ Answered(k) =>
                   LET out == Classify(calls[k].resp.status,
                                       calls[k].resp.bytes, ResultTypeOf(k),
                                       ZeroValue(ResultTypeOf(k)))
                   IN  /\ calls[k].err = out.err
                       /\ calls[k].result = out.result

\* on a client built with WithTenant("") and WithDatabase(""),
\* ListCollections(ctx, "", "") was sent once to
\* /api/v2/tenants//databases//collections and has returned the server's 404
C24_Witness ==
    /\ client.constructed
    /\ client.tenant = <<>>
    /\ client.database = <<>>
    /\ calls["c1"].pc = "done"
    /\ calls["c1"].inv.op = "ListCollections"
    /\ calls["c1"].inv.tenant = <<>>
    /\ calls["c1"].inv.database = <<>>
    /\ PathOf("c1") =
           JoinPath(<<SegApi, SegV2, SegTenants, <<>>, SegDatabases, <<>>,
                      SegCollections>>)
    /\ calls["c1"].doCount = 1
    /\ calls["c1"].err = HTTPError(404, <<>>)

(***************************************************************************)
(* C25: doRequest works from the path it is given: the URL of the request  *)
(* it builds is the client's stored base address followed by that path,    *)
(* character for character, and the request (or the error) it comes to is  *)
(* the same whatever the client's tenant and database are.                 *)
(***************************************************************************)
OtherScopes == {<<>>, <<"z">>, <<"a", "/", "b">>}

C25_DispatcherTakesPathAsGiven ==
    \A k \in Callers :
        InOperation(k) =>
            /\ calls[k].req # NoRequest =>
                   /\ calls[k].req.url = client.baseURL \o calls[k].args.path
                   /\ calls[k].req.method = calls[k].args.method
            /\ \A t \in OtherScopes, d \in OtherScopes :
                   LET other == [client EXCEPT !.tenant = t, !.database = d]
                       built == BuildRequest(other, calls[k].ctx,
                                             calls[k].args)
                   IN  /\ built.req = calls[k].req
                       /\ built.err # NoError =>
                              /\ calls[k].pc = "done"
                              /\ calls[k].err = built.err

\* CountCollections(ctx, "", "") on a client configured with tenant "t"
\* and database "d" is being sent to the default base address followed by
\* /api/v2/tenants/t/databases/d/collections_count
C25_Witness ==
    /\ client.constructed
    /\ client.tenant = <<"t">>
    /\ calls["c1"].pc = "sending"
    /\ calls["c1"].inv.op = "CountCollections"
    /\ calls["c1"].inv.tenant = <<>>
    /\ calls["c1"].inv.database = <<>>
    /\ calls["c1"].req.url =
           DefaultBaseURL
           \o JoinPath(<<SegApi, SegV2, SegTenants, <<"t">>, SegDatabases,
                         <<"d">>, SegCollectionsCount>>)

(***************************************************************************)
(* C26: a client given a base address that ends in exactly one slash       *)
(* stores it without that slash, and a client given one that ends in no    *)
(* slash stores it as given; every request such a client builds goes to    *)
(* the stored base address followed by the path, with one slash, not two,  *)
(* where the two meet.                                                     *)
(***************************************************************************)
EndsInSlash(s) == HasSuffix(s, <<"/">>)
EndsInOneSlash(s) == EndsInSlash(s) /\ ~HasSuffix(s, <<"/", "/">>)

\* the base address the last WithBaseURL among the options was given
BaseURLGiven == opts[Last(Naming("baseURL"))].arg

C26_OneSlashAtTheJoin ==
    (client.constructed /\ Naming("baseURL") # {}) =>
        /\ EndsInOneSlash(BaseURLGiven) =>
               client.baseURL = SubSeq(BaseURLGiven, 1, Len(BaseURLGiven) - 1)
        /\ ~EndsInSlash(BaseURLGiven) => client.baseURL = BaseURLGiven
        /\ (EndsInOneSlash(BaseURLGiven) \/ ~EndsInSlash(BaseURLGiven)) =>
               \A k \in Callers :
                   calls[k].req # NoRequest =>
                       LET url == calls[k].req.url
                           n == Len(client.baseURL)
                       IN  /\ url = client.baseURL \o PathOf(k)
                           /\ SubSeq(url, 1, n) = client.baseURL
                           /\ ~EndsInSlash(client.baseURL)
                           /\ url[n + 1] = "/"
                           /\ url[n + 2] # "/"

\* a client built with WithBaseURL("a/") is sending Version to
\* "a/api/v2/version"
C26_Witness ==
    /\ opts = <<WithBaseURL(<<"a", "/">>)>>
    /\ client.baseURL = <<"a">>
    /\ calls["c1"].pc = "sending"
    /\ calls["c1"].inv.op = "Version"
    /\ calls["c1"].req.url = <<"a">> \o JoinPath(<<SegApi, SegV2, SegVersion>>)

(***************************************************************************)
(* C27: a call to which the transport gave a response has closed the       *)
(* response body exactly once when doRequest returns, however it returns   *)
(* (failed read, *HTTPError, decode failure, success), and not before; a   *)
(* call to which the transport gave an error, or that never reached the    *)
(* transport, has read and closed no body.                                 *)
(***************************************************************************)
C27_BodyClosedOnce ==
    \A k \in Callers :
        /\ calls[k].pc \in {"idle", "sending", "reading", "panicked"} =>
               calls[k].closed = 0
        /\ calls[k].pc = "done" =>
               /\ calls[k].resp # NoResponse =>
                      /\ calls[k].closed = 1
                      /\ calls[k].read \in {"ok", "failed"}
               /\ calls[k].resp = NoResponse =>
                      /\ calls[k].closed = 0
                      /\ calls[k].read = "none"

\* Version answered 200 with a body that is no JSON string has returned
\* the decode failure, the body closed once
C27_Witness ==
    /\ calls["c1"].pc = "done"
    /\ calls["c1"].inv.op = "Version"
    /\ calls["c1"].resp.status = 200
    /\ calls["c1"].read = "ok"
    /\ calls["c1"].err = Wrapped("failed to unmarshal response")
    /\ calls["c1"].closed = 1

(***************************************************************************)
(* C28: the result target is written on the success path alone: whenever   *)
(* doRequest returns an *HTTPError or the error of a failed marshal,       *)
(* request construction, exchange or body read, the target still holds its *)
(* zero value, and the operation returns that zero value, the              *)
(* pointer-returning operations as a non-nil pointer to it, together with  *)
(* the error; a target that holds anything else was written from the       *)
(* non-empty body of a 2xx response.                                       *)
(***************************************************************************)
\* the errors of doRequest but that of decoding the response
IsTransportOrAPIError(err) ==
    \/ IsHTTPError(err)
    \/ err.kind = "wrapped" /\ err.msg # "failed to unmarshal response"

ClaimedPointerOps ==
    {"CreateTenant", "GetTenant", "CreateDatabase", "GetDatabase",
     "CreateCollection", "GetCollection", "UpdateCollection", "Get", "Query"}

C28_ResultWrittenOnSuccessOnly ==
    \A k \in Callers :
        calls[k].pc = "done" =>
            LET zero == ZeroValue(ResultTypeOf(k))
                returned == ReturnValues(calls[k].inv.op, calls[k].result,
                                         calls[k].err)
            IN  /\ IsTransportOrAPIError(calls[k].err) =>
                       /\ calls[k].result = zero
                       /\ returned.err = calls[k].err
                       /\ returned.err # NoError
                       /\ ResultTypeOf(k) # "none" => returned.value = zero
                       /\ ~returned.nil
                       /\ returned.pointer <=>
                              calls[k].inv.op \in ClaimedPointerOps
                /\ calls[k].result # zero =>
                       /\ Answered(k)
                       /\ Status2xx(k)
                       /\ calls[k].resp.bytes # <<>>

\* GetTenant answered 404 with the JSON of a tenant has returned the
\* HTTPError and left its Tenant zero-valued
C28_Witness ==
    /\ calls["c1"].pc = "done"
    /\ calls["c1"].inv.op = "GetTenant"
    /\ calls["c1"].resp.status = 404
    /\ calls["c1"].resp.sent = JObj(<< <<NameKey, JStr(<<"t">>)>> >>)
    /\ IsHTTPError(calls["c1"].err)
    /\ calls["c1"].result = [Name |-> <<>>]

(***************************************************************************)
(* C29: the collection-id operations and the tenant-level operations do    *)
(* not depend on the client's tenant and database: a client that differs   *)
(* from this one in those two fields alone hands doRequest the same        *)
(* method, path, body and result type for the same arguments, and comes to *)
(* the same request (method, URL, Content-Type, body) or the same local    *)
(* error.                                                                  *)
(***************************************************************************)
UnscopedOps ==
    {"UpdateCollection", "Add", "Update", "Upsert", "Get", "Delete", "Count",
     "Query", "CreateTenant", "GetTenant"}

C29_UnscopedOpsIgnoreClientScope ==
    \A k \in Callers :
        InOperation(k) /\ calls[k].inv.op \in UnscopedOps =>
            \A t \in OtherScopes, d \in OtherScopes :
                LET other == [client EXCEPT !.tenant = t, !.database = d]
                    args == Operation(other, calls[k].inv)
                    built == BuildRequest(other, calls[k].ctx, args)
                IN  /\ args = calls[k].args
                    /\ built.req = calls[k].req
                    /\ built.err # NoError =>
                           /\ calls[k].pc = "done"
                           /\ calls[k].err = built.err

\* Count(ctx, "c") on a client configured with tenant "t" and database
\* "d" is being sent to /api/v2/collections/c/count
C29_Witness ==
    /\ client.constructed
    /\ client.tenant = <<"t">>
    /\ client.database = <<"d">>
    /\ calls["c1"].pc = "sending"
    /\ calls["c1"].inv.op = "Count"
    /\ calls["c1"].inv.name = <<"c">>
    /\ calls["c1"].req.url =
           DefaultBaseURL
           \o JoinPath(<<SegApi, SegV2, SegCollections, <<"c">>, SegCount>>)

(***************************************************************************)
(* C30: the Error method of an *HTTPError returns its Message and nothing  *)
(* else: for every call that returned an *HTTPError the error string is    *)
(* the body of the response byte for byte, whatever the status code was,   *)
(* and a response outside 200..299 with an empty body comes back as a      *)
(* non-nil *HTTPError whose error string is empty.                         *)
(***************************************************************************)
C30_ErrorIsTheMessage ==
    \A k \in Callers :
        calls[k].pc = "done" =>
            /\ IsHTTPError(calls[k].err) =>
                   /\ Error(calls[k].err) = calls[k].err.Message
                   /\ Error(calls[k].err) = calls[k].resp.bytes
                   /\ \A status \in Statuses :
                          Error([calls[k].err EXCEPT !.StatusCode = status])
                              = Error(calls[k].err)
            /\ ( /\ Answered(k)
                 /\ calls[k].read = "ok"
                 /\ ~Status2xx(k)
                 /\ calls[k].resp.bytes = <<>> ) =>
                   /\ calls[k].err # NoError
                   /\ IsHTTPError(calls[k].err)
                   /\ Error(calls[k].err) = <<>>

\* Reset answered 500 with an empty body has returned an *HTTPError whose
\* error string is empty
C30_Witness ==
    /\ calls["c1"].pc = "done"
    /\ calls["c1"].inv.op = "Reset"
    /\ calls["c1"].resp.status = 500
    /\ calls["c1"].resp.bytes = <<>>
    /\ calls["c1"].err = HTTPError(500, <<>>)
    /\ Error(calls["c1"].err) = <<>>
====
